---- MODULE Spec2Model ----
(***************************************************************************)
(* A model of docker/nllb-server.py: the resource monitor (sampler and     *)
(* clear_pressure), the pressure failure ledger, model auto-selection, the *)
(* stepdown controller with the /translate handler, the /benchmark         *)
(* singleton and the /health endpoint.                                     *)
(*                                                                         *)
(* The module holds several specifications over one set of variables; each *)
(* one moves the variables of its own part and leaves the others at their  *)
(* initial values:                                                         *)
(*   SpecLedger  PressureFailureCache: record_failure / _save / _load      *)
(*   SpecSelect  _resolve_model followed by the load of the chosen combo   *)
(*   SpecBench   benchmark(): cache, lock, in-flight record, joiners       *)
(*   SpecMon     ResourceMonitor._poll_loop interleaved with               *)
(*               clear_pressure() callers                                  *)
(*   SpecSvc     translate() handlers, _perform_stepdown, the sampler      *)
(*   SpecKey     _benchmark_cache_key applied to two requests              *)
(*   SpecPoll    _poll_loop with its waits and stop(), with and without a  *)
(*               GPU                                                       *)
(*   SpecStop    the same loop under fairness of the sampler's thread      *)
(*   SpecLoad    the startup, stepdown and benchmark loads and their       *)
(*               LoadContext                                               *)
(*   SpecRing    the timeline filled by the sampler and by stepdowns       *)
(*   SpecHealth  GET /health with and without a valid HMAC token           *)
(*   SpecLine    one translate() handler and its stepdown beside the       *)
(*               sampler's statements                                      *)
(*   SpecSnap    snapshot() called by a sweep beside the sampler's loop    *)
(*   SpecSweep   _run_benchmark's matrix loop beside the sampler's         *)
(*               statements                                                *)
(*   SpecBenchFair  SpecBench with the handler threads scheduled           *)
(*                                                                         *)
(* Optional values (Python None / a value) are sequences of length 0 or 1, *)
(* so that TLC can compare them.                                           *)
(***************************************************************************)
EXTENDS Integers, Sequences, FiniteSets, TLC

None == <<>>
Some(x) == <<x>>
IsNone(o) == o = <<>>

Max(a, b) == IF a >= b THEN a ELSE b

M33 == "facebook/nllb-200-3.3B"
M13 == "facebook/nllb-200-distilled-1.3B"
M06 == "facebook/nllb-200-distilled-600M"

\* NLLB_SPECS, largest first
NLLB_SPECS == <<
    [model_id |-> M33, params_m |-> 3300, cpu_practical |-> FALSE],
    [model_id |-> M13, params_m |-> 1300, cpu_practical |-> TRUE],
    [model_id |-> M06, params_m |-> 600,  cpu_practical |-> TRUE] >>

ModelIds == {NLLB_SPECS[i].model_id : i \in DOMAIN NLLB_SPECS}

VARIABLES
    \* ---- PressureFailureCache ----
    hw_fingerprint,     \* self._hw_fingerprint of the running process
    failures,           \* self._failures: the in-memory list of records
    file,               \* the cache file on disk
    cacheLock,          \* self._lock: the thread holding it, or None
    rfPc,               \* per thread: position inside record_failure
    rfArg,              \* per thread: the arguments of its record_failure call
    ledClock,           \* datetime.now() of the ledger, in ticks
    ledLoad,            \* history: whether _load discarded a file of other hardware,
                        \* the record_failure calls that changed the list since, and
                        \* the list those calls give when run one after the other
    \* ---- module globals set at import and by the loaders ----
    host,               \* the hardware and the environment variables of the process
    DEVICE,             \* DEVICE
    PRECISION,          \* PRECISION
    MODEL_NAME,         \* MODEL_NAME: the process-wide active model id
    tokenizer,          \* tokenizer: None or the model id it was loaded for
    model,              \* model: None or the loaded model
    startPc,            \* position of the import-time selection and startup load
    strongWarning,      \* the STRONG WARNING _resolve_model has logged, or None
    \* ---- /benchmark ----
    benchLock,          \* _benchmark_lock: the handler holding it, or None
    benchFuture,        \* _benchmark_future: 0 (None) or an index into futures
    futures,            \* the in-flight records created so far: key, result, event
    benchCache,         \* _benchmark_cache: key -> None or the stored response
    bPc,                \* per handler: position inside benchmark()
    bKey,               \* per handler: cache_key of its request
    bFut,               \* per handler: its local "future" (index into futures)
    bSeen,              \* per handler (history): the key of the request that
                        \* held the lock when its acquire failed
    bResp,              \* per handler: None or the response it returned
    sweeps,             \* number of _run_benchmark calls started so far
    bReqs,              \* number of /benchmark requests received so far
    kReq,               \* per caller: the BenchmarkRequest whose key is computed
    kKey,               \* per caller: None or _benchmark_cache_key(hw_fp, req)
    \* ---- ResourceMonitor ----
    state,              \* self.state: a PressureLevel value
    pressure_event,     \* self.pressure_event.is_set()
    pressure_reason,    \* self.pressure_reason
    pressure_snapshot,  \* self.pressure_snapshot: None or a snapshot
    stepdown_active,    \* self.stepdown_active
    stepped_down_from,  \* self.stepped_down_from
    stepped_down_to,    \* self.stepped_down_to
    load_context,       \* self._load_context: None or a LoadContext
    timeline,           \* self._timeline
    last_snapshot,      \* self._last_snapshot
    clock,              \* time.time(), in ticks: one tick per snapshot taken
    samples,            \* number of iterations the sampler has started
    world,              \* the resource readings the host can produce
    sPc,                \* the sampler thread: position inside one iteration
    sSnap,              \* the sampler thread: snap
    sVramHard,          \* the sampler thread: vram_hard_reason
    sPlan,              \* the sampler thread: what the branch taken will write
    cPc,                \* per request thread: position inside clear_pressure
    clears,             \* number of clear_pressure calls made by sweeps so far
    clearedAt,          \* (history) the clock when clear_pressure last returned
    \* ---- /translate and the stepdown controller ----
    tPc,                \* per request thread: position inside translate
    tCur,               \* per request thread: current_model
    tServed,            \* per request thread: the model object its inference ran on
    tSnap,              \* per request thread: pressure_snap
    tReason,            \* per request thread: pressure_reason
    tNext,              \* per request thread: next_model of _perform_stepdown
    tNew,               \* per request thread: new_model
    tResp,              \* per request thread: None or the response returned
    tReqs,              \* number of /translate requests received so far
    tLate,              \* per request thread (history): its request arrived
                        \* after _perform_stepdown had found no successor, with
                        \* the pressure event set
    noStepdown,         \* (history) _perform_stepdown found no successor while
                        \* the pressure event that is set was set
    \* ---- the sampler's loop, stop() and the loads that register a context ----
    stop_event,         \* self._stop_event.is_set()
    pPc,                \* the sampler thread: position in the while loop
    interval,           \* the sampler thread: interval, "" before it is assigned
    timer,              \* the interval of the wait in progress has run out
    vram_velocity,      \* self._vram_velocity
    ram_velocity,       \* self._ram_velocity
    sFrom,              \* (history) the branch of the if/elif chain last taken
    sCtx,               \* (history) the load context that iteration found
    stopAt,             \* (history) where the sampler was when stop() was called
    afterStop,          \* (history) snapshots the sampler took after stop()
    lPc,                \* per loader: idle, loading, returned or raised
    lModel,             \* per loader: the model id it loads
    loads,              \* number of loads started so far
    snapCalls,          \* number of snapshot() calls made by a benchmark sweep
    sweep,              \* _run_benchmark: its position and its locals
    \* ---- /health ----
    NLLB_API_KEY,       \* the configured key, "" when none is
    startup_status,     \* startup_status: phase, detail, started_at
    hPc,                \* per client: position inside health()
    hReq,               \* per client: the Authorization header and the time
    hReady,             \* per client: ready
    hResp               \* per client: None or the response returned

ledVars == <<hw_fingerprint, failures, file, cacheLock, rfPc, rfArg, ledClock, ledLoad>>
selVars == <<host, DEVICE, PRECISION, MODEL_NAME, tokenizer, model, startPc,
             strongWarning>>

benchCore == <<benchLock, benchFuture, futures, benchCache, bPc, bKey, bFut,
               bSeen, bResp, sweeps, bReqs>>
keyVars == <<kReq, kKey>>
pollVars == <<stop_event, pPc, interval, timer, vram_velocity, ram_velocity,
              sFrom, sCtx, stopAt, afterStop, lPc, lModel, loads, snapCalls,
              sweep>>
healthVars == <<NLLB_API_KEY, startup_status, hPc, hReq, hReady, hResp>>
\* benchVars also carries the variables of the parts that were added after
\* the request handlers: what leaves benchVars alone leaves these alone
benchVars == <<benchCore, keyVars, pollVars, healthVars>>

monShared == <<state, pressure_event, pressure_reason, pressure_snapshot>>
monFlags == <<stepdown_active, stepped_down_from, stepped_down_to>>
monLocal == <<sPc, sSnap, sVramHard, sPlan>>
monVars == <<monShared, monFlags, monLocal, load_context, timeline,
             last_snapshot, clock, samples, world, cPc, clears, clearedAt>>

svcLocals == <<tPc, tCur, tServed, tSnap, tReason, tNext, tNew, tResp, tReqs,
               tLate>>
svcVars == <<svcLocals, noStepdown>>

vars == <<ledVars, selVars, benchVars, monVars, svcVars>>

\* what the actions of one part leave unchanged
othersLed == <<selVars, benchVars, monVars, svcVars>>
othersSel == <<benchVars, monVars, svcVars>>
othersBench == <<ledVars, selVars, monVars, svcVars, pollVars, healthVars>>
othersMon == <<ledVars, selVars, benchVars, svcVars>>

\* the threads that serve requests
Threads == {"h1", "h2"}

\* ResourceMonitor.__init__, before the sampler thread has run
MonitorIdle ==
    /\ state = "ok"
    /\ pressure_event = FALSE
    /\ pressure_reason = ""
    /\ pressure_snapshot = None
    /\ stepdown_active = FALSE
    /\ stepped_down_from = None
    /\ stepped_down_to = None
    /\ load_context = None
    /\ timeline = <<>>
    /\ last_snapshot = None
    /\ clock = 0
    /\ samples = 0
    /\ world = {}
    /\ sPc = "snapshot"
    /\ sSnap = None
    /\ sVramHard = ""
    /\ sPlan = None
    /\ cPc = [t \in Threads |-> "none"]
    /\ clears = 0
    /\ clearedAt = None

\* no /translate request received
ServiceIdle ==
    /\ tPc = [t \in Threads |-> "idle"]
    /\ tCur = [t \in Threads |-> ""]
    /\ tServed = [t \in Threads |-> None]
    /\ tSnap = [t \in Threads |-> None]
    /\ tReason = [t \in Threads |-> ""]
    /\ tNext = [t \in Threads |-> None]
    /\ tNew = [t \in Threads |-> None]
    /\ tResp = [t \in Threads |-> None]
    /\ tReqs = 0
    /\ tLate = [t \in Threads |-> FALSE]
    /\ noStepdown = FALSE

\* the functions that load a model: load_model (startup), the load inside
\* _perform_stepdown, and _load_model_for_benchmark
Loaders == {"startup", "stepdown", "benchmark"}

\* a velocity tracker as SubsystemVelocity() constructs it; the EWMA is kept
\* in hundredths of MB/s
NewVelocity == [prev_free_mb |-> None, prev_time |-> None, ewma_delta_per_s |-> 0]

\* _run_benchmark is not running
SweepIdle ==
    [pc |-> "idle", combo |-> 0, done |-> 0, stage |-> "", seen |-> FALSE,
     reason |-> "", snap |-> None, loaded |-> None, results |-> <<>>]

\* the sampler's loop not entered, stop() not called, no load running
PollIdle ==
    /\ stop_event = FALSE
    /\ pPc = "check"
    /\ interval = ""
    /\ timer = FALSE
    /\ vram_velocity = NewVelocity
    /\ ram_velocity = NewVelocity
    /\ sFrom = ""
    /\ sCtx = None
    /\ stopAt = ""
    /\ afterStop = 0
    /\ lPc = [l \in Loaders |-> "idle"]
    /\ lModel = [l \in Loaders |-> ""]
    /\ loads = 0
    /\ snapCalls = 0
    /\ sweep = SweepIdle

HealthClients == {"p1"}

\* a server that has finished its startup and has received no /health request
HealthIdle ==
    /\ NLLB_API_KEY = ""
    /\ startup_status = [phase |-> "ready", detail |-> "", started_at |-> 0]
    /\ hPc = [c \in HealthClients |-> "idle"]
    /\ hReq = [c \in HealthClients |-> None]
    /\ hReady = [c \in HealthClients |-> FALSE]
    /\ hResp = [c \in HealthClients |-> None]

BenchClients == {"a", "b"}
BenchKeys == {"K1", "K2"}

\* no cache key is being computed
KeyIdle ==
    /\ kReq = [c \in BenchClients |-> None]
    /\ kKey = [c \in BenchClients |-> None]

\* a process that has received no /benchmark request
BenchIdle ==
    /\ KeyIdle
    /\ benchLock = None
    /\ benchFuture = 0
    /\ futures = <<>>
    /\ benchCache = [k \in BenchKeys |-> None]
    /\ bPc = [h \in BenchClients |-> "idle"]
    /\ bKey = [h \in BenchClients |-> "K1"]
    /\ bFut = [h \in BenchClients |-> 0]
    /\ bSeen = [h \in BenchClients |-> None]
    /\ bResp = [h \in BenchClients |-> None]
    /\ sweeps = 0
    /\ bReqs = 0

(***************************************************************************)
(*                      PressureFailureCache (ledger)                      *)
(***************************************************************************)

\* bound: number of record_failure calls in one behaviour
MaxLedgerOps == 3

LedgerThreads == {"t1", "t2"}

Fingerprints == {"RTX:8192:32000", "no-gpu:0:32000"}

\* the (model, precision, device) triples and reasons the ledger threads record
LedgerModels == {M33, M13}
LedgerPrecisions == {"fp16"}
LedgerDevices == {"cuda"}
\* (reason, snapshot) arguments: the snapshot is None or
\* ResourceSnapshot.to_dict() (fields abridged)
LedgerCauses == {
    [reason |-> "ram_available=800 < hard=1000",
     snapshot |-> Some([ram_available_mb |-> 800, process_swap_mb |-> 0])],
    [reason |-> "process_vmswap=3 > 0", snapshot |-> None] }

SameCombo(f, model_id, precision, device) ==
    /\ f.model_id = model_id
    /\ f.precision = precision
    /\ f.device = device

\* is_known_failure: the first matching record, or None
is_known_failure(fs, model_id, precision, device) ==
    LET hits == {i \in DOMAIN fs : SameCombo(fs[i], model_id, precision, device)}
    IN  IF hits = {} THEN None
        ELSE Some(fs[CHOOSE i \in hits : \A j \in hits : i <= j])

\* the index of the first record of the combo, 0 when there is none: the
\* dedup loop of record_failure
FirstMatch(fs, model_id, precision, device) ==
    LET hits == {i \in DOMAIN fs : SameCombo(fs[i], model_id, precision, device)}
    IN  IF hits = {} THEN 0 ELSE CHOOSE i \in hits : \A j \in hits : i <= j

\* (mutant) the update in place refreshes the timestamp and forgets the reason
UpdateInPlace_KeepsReason(fs, i, reason, snapshot, now) ==
    [fs EXCEPT ![i] = [@ EXCEPT !.recorded_at = now, !.snapshot = snapshot]]

\* the body of the dedup loop on a match: f["recorded_at"], f["reason"],
\* f["snapshot"] are overwritten
UpdateInPlace(fs, i, reason, snapshot, now) ==
    [fs EXCEPT ![i] = [@ EXCEPT !.recorded_at = now,
                                !.reason = reason,
                                !.snapshot = snapshot]]

\* self._failures.append({...})
AppendFailure(fs, model_id, precision, device, reason, snapshot, now) ==
    Append(fs, [model_id |-> model_id, precision |-> precision,
                device |-> device, recorded_at |-> now,
                reason |-> reason, snapshot |-> snapshot])

\* record_failure as one step (used where the caller holds no other thread
\* of the ledger): update the first match in place, or append
RecordFailureList(fs, model_id, precision, device, reason, snapshot, now) ==
    LET i == FirstMatch(fs, model_id, precision, device)
    IN  IF i # 0 THEN UpdateInPlace(fs, i, reason, snapshot, now)
        ELSE AppendFailure(fs, model_id, precision, device, reason, snapshot, now)

\* json.dumps of one value of a failure record: None becomes null, a snapshot
\* dict becomes an object (its key/value pairs in order), a scalar stays
JsonNull == <<"null">>
SnapshotKeys == <<"ram_available_mb", "process_swap_mb">>
JsonDumpsSnapshot(s) ==
    IF IsNone(s) THEN JsonNull
    ELSE <<"object", [i \in DOMAIN SnapshotKeys |->
                        <<SnapshotKeys[i], s[1][SnapshotKeys[i]]>>]>>
JsonLoadsSnapshot(j) ==
    IF j = JsonNull THEN None
    ELSE LET pairs == j[2]
         IN  Some([k \in {pairs[i][1] : i \in DOMAIN pairs} |->
                     pairs[CHOOSE i \in DOMAIN pairs : pairs[i][1] = k][2]])

\* json.dumps / json.loads of one failure record
JsonDumpsFailure(f) ==
    <<f.model_id, f.precision, f.device, f.recorded_at, f.reason,
      JsonDumpsSnapshot(f.snapshot)>>
JsonLoadsFailure(j) ==
    [model_id |-> j[1], precision |-> j[2], device |-> j[3],
     recorded_at |-> j[4], reason |-> j[5], snapshot |-> JsonLoadsSnapshot(j[6])]

\* the text _save writes
SaveData(fp, fs) ==
    [kind |-> "json", version |-> 1, hw_fingerprint |-> fp,
     failures |-> [i \in DOMAIN fs |-> JsonDumpsFailure(fs[i])]]

NoFile == [kind |-> "absent", version |-> 0, hw_fingerprint |-> "", failures |-> <<>>]
\* a write that failed after the file was truncated leaves text json.loads rejects
CorruptFile == [kind |-> "corrupt", version |-> 0, hw_fingerprint |-> "", failures |-> <<>>]

\* (mutant) the records are read back in the opposite order
Load_Reversed(f, fp) ==
    IF f.kind # "json" \/ f.version # 1 \/ f.hw_fingerprint # fp THEN <<>>
    ELSE [i \in DOMAIN f.failures |->
            JsonLoadsFailure(f.failures[Len(f.failures) + 1 - i])]

\* (mutant) _load takes the records of a file whatever hardware wrote it
Load_AnyHardware(f, fp) ==
    IF f.kind # "json" \/ f.version # 1 THEN <<>>
    ELSE [i \in DOMAIN f.failures |-> JsonLoadsFailure(f.failures[i])]

\* _load: the list a fresh PressureFailureCache(path, fp) starts with
Load(f, fp) ==
    IF f.kind = "absent" THEN <<>>
    ELSE IF f.kind = "corrupt" THEN <<>>
    ELSE IF f.version # 1 THEN <<>>
    ELSE IF f.hw_fingerprint # fp THEN <<>>
    ELSE [i \in DOMAIN f.failures |-> JsonLoadsFailure(f.failures[i])]

\* _load's "hw fingerprint mismatch ... discarding stale cache" branch is taken
Stale(f, fp) ==
    f.kind = "json" /\ f.version = 1 /\ f.hw_fingerprint # fp

\* the files a starting process can find: none, or one an earlier run saved
\* (possibly on other hardware)
OldRecord(m, d) ==
    [model_id |-> m, precision |-> "fp16", device |-> d, recorded_at |-> 0,
     reason |-> "swap_delta=12 (used=12, baseline=0) > hard=0", snapshot |-> None]
InitialFiles ==
    {NoFile}
    \cup {SaveData(fp, <<OldRecord(M13, "cpu"), OldRecord(M33, "cuda")>>) : fp \in Fingerprints}

\* the module globals of a process that has selected and loaded its model;
\* the parts that do not look at the hardware leave them like this
DefaultHost ==
    [env_MODEL_NAME |-> "", env_NLLB_PARAMS |-> "", env_NLLB_PRECISION |-> "",
     bf16_ok |-> TRUE, avx512bf16 |-> FALSE, vram_mb |-> 24576, ram_mb |-> 32000]
GlobalsLoaded(m) ==
    /\ host = DefaultHost
    /\ DEVICE = "cuda"
    /\ PRECISION = "bf16"
    /\ MODEL_NAME = m
    /\ tokenizer = Some(m)
    /\ model = Some([model_id |-> m, precision |-> "bf16", device |-> "cuda",
                     placed |-> TRUE])
    /\ startPc = "ready"
    /\ strongWarning = None

\* a ledger nobody is writing, as the parts that do not use it leave it
LedgerIdle ==
    /\ hw_fingerprint = "RTX:8192:32000"
    /\ file = NoFile
    /\ failures = <<>>
    /\ ledLoad = [stale |-> FALSE, records |-> 0, sequential |-> failures]
    /\ cacheLock = None
    /\ rfPc = [t \in LedgerThreads |-> "idle"]
    /\ rfArg = [t \in LedgerThreads |-> None]
    /\ ledClock = 0

\* PressureFailureCache.__init__
LedgerInit ==
    /\ GlobalsLoaded(M33)
    /\ BenchIdle
    /\ MonitorIdle
    /\ ServiceIdle
    /\ PollIdle
    /\ HealthIdle
    /\ hw_fingerprint \in Fingerprints
    /\ file \in InitialFiles
    /\ failures = Load(file, hw_fingerprint)
    /\ ledLoad = [stale |-> Stale(file, hw_fingerprint), records |-> 0,
                  sequential |-> Load(file, hw_fingerprint)]
    /\ cacheLock = None
    /\ rfPc = [t \in LedgerThreads |-> "idle"]
    /\ rfArg = [t \in LedgerThreads |-> None]
    /\ ledClock = 0

\* a thread calls record_failure(model_id, precision, device, reason, snapshot)
RfCall(t) ==
    /\ rfPc[t] = "idle"
    /\ ledClock < MaxLedgerOps
    /\ \E m \in LedgerModels, p \in LedgerPrecisions, d \in LedgerDevices,
          c \in LedgerCauses :
          rfArg' = [rfArg EXCEPT ![t] = Some([model_id |-> m, precision |-> p,
                                               device |-> d, reason |-> c.reason,
                                               snapshot |-> c.snapshot,
                                               idx |-> 0, wrote |-> FALSE])]
    /\ rfPc' = [rfPc EXCEPT ![t] = "lock"]
    /\ ledClock' = ledClock + 1
    /\ UNCHANGED <<othersLed, hw_fingerprint, failures, file, cacheLock, ledLoad>>

\* (mutant) the critical section is entered without waiting for the lock
RfAcquire_NoExclusion(t) ==
    /\ rfPc[t] = "lock"
    /\ cacheLock' = Some(t)
    /\ rfPc' = [rfPc EXCEPT ![t] = "scan"]
    /\ UNCHANGED <<othersLed, hw_fingerprint, failures, file, rfArg, ledClock, ledLoad>>

\* (mutant) the lock is tried without blocking and the result is not looked at
RfAcquire_TryLock(t) ==
    /\ rfPc[t] = "lock"
    /\ cacheLock' = IF cacheLock = None THEN Some(t) ELSE cacheLock
    /\ rfPc' = [rfPc EXCEPT ![t] = "scan"]
    /\ UNCHANGED <<othersLed, hw_fingerprint, failures, file, rfArg, ledClock, ledLoad>>

\* with self._lock:
RfAcquire(t) ==
    /\ rfPc[t] = "lock"
    /\ cacheLock = None
    /\ cacheLock' = Some(t)
    /\ rfPc' = [rfPc EXCEPT ![t] = "scan"]
    /\ UNCHANGED <<othersLed, hw_fingerprint, failures, file, rfArg, ledClock, ledLoad>>

\* for f in self._failures: if f matches the combo ...
RfScan(t) ==
    /\ rfPc[t] = "scan"
    /\ LET a == rfArg[t][1]
       IN  rfArg' = [rfArg EXCEPT ![t] = Some([a EXCEPT !.idx =
                        FirstMatch(failures, a.model_id, a.precision, a.device)])]
    /\ rfPc' = [rfPc EXCEPT ![t] = "mutate"]
    /\ UNCHANGED <<othersLed, hw_fingerprint, failures, file, cacheLock, ledClock, ledLoad>>

\* ... update the match in place; without a match, append
RfMutate(t) ==
    /\ rfPc[t] = "mutate"
    /\ LET a == rfArg[t][1]
       IN  failures' =
             IF a.idx # 0
             THEN UpdateInPlace(failures, a.idx, a.reason, a.snapshot, ledClock)
             ELSE AppendFailure(failures, a.model_id, a.precision, a.device,
                                a.reason, a.snapshot, ledClock)
    /\ rfPc' = [rfPc EXCEPT ![t] = "save"]
    /\ LET a == rfArg[t][1]
       IN  ledLoad' = [ledLoad EXCEPT
                         !.records = @ + 1,
                         !.sequential = RecordFailureList(@, a.model_id, a.precision,
                                           a.device, a.reason, a.snapshot, ledClock)]
    /\ UNCHANGED <<othersLed, hw_fingerprint, file, cacheLock, rfArg, ledClock>>

\* self._save(): the full rewrite; an OSError is logged and swallowed, leaving
\* the old file (open failed) or a truncated one (write failed)
RfSave(t) ==
    /\ rfPc[t] = "save"
    /\ \/ /\ file' = SaveData(hw_fingerprint, failures)
          /\ rfArg' = [rfArg EXCEPT ![t] = Some([@[1] EXCEPT !.wrote = TRUE])]
       \/ /\ file' \in {file, CorruptFile}
          /\ UNCHANGED rfArg
    /\ rfPc' = [rfPc EXCEPT ![t] = "unlock"]
    /\ UNCHANGED <<othersLed, hw_fingerprint, failures, cacheLock, ledClock, ledLoad>>

\* leaving the with block; record_failure returns
RfRelease(t) ==
    /\ rfPc[t] = "unlock"
    /\ cacheLock' = None
    /\ rfPc' = [rfPc EXCEPT ![t] = "idle"]
    /\ rfArg' = [rfArg EXCEPT ![t] = None]
    /\ UNCHANGED <<othersLed, hw_fingerprint, failures, file, ledClock, ledLoad>>

\* the process restarts (possibly on other hardware) and constructs the ledger
\* again from the file
LedgerRestart ==
    /\ \A t \in LedgerThreads : rfPc[t] = "idle"
    /\ ledClock > 0
    /\ hw_fingerprint' \in Fingerprints
    /\ failures' = Load(file, hw_fingerprint')
    /\ ledLoad' = [stale |-> Stale(file, hw_fingerprint'), records |-> 0,
                   sequential |-> Load(file, hw_fingerprint')]
    /\ UNCHANGED <<othersLed, file, cacheLock, rfPc, rfArg, ledClock>>

LedgerNext ==
    \/ \E t \in LedgerThreads : RfCall(t)
    \/ \E t \in LedgerThreads : RfAcquire(t)
    \/ \E t \in LedgerThreads : RfScan(t)
    \/ \E t \in LedgerThreads : RfMutate(t)
    \/ \E t \in LedgerThreads : RfSave(t)
    \/ \E t \in LedgerThreads : RfRelease(t)
    \/ LedgerRestart

SpecLedger == LedgerInit /\ [][LedgerNext]_vars

ComboOf(f) == <<f.model_id, f.precision, f.device>>

\* C8: once record_failure(model, precision, device, reason) has done its work
\* (the thread is about to leave the lock and return), is_known_failure for the
\* same triple returns a record, and its reason is the one just written; this
\* holds for a new triple, for a triple already recorded, and when the file
\* write failed.
C8_RecordThenKnown ==
    \A t \in LedgerThreads :
        rfPc[t] = "unlock" =>
            LET a == rfArg[t][1]
                r == is_known_failure(failures, a.model_id, a.precision, a.device)
            IN  /\ ~IsNone(r)
                /\ r[1].reason = a.reason

\* a re-recording with another reason than the stored one has returned although
\* its file write failed
C8_Witness ==
    \E t \in LedgerThreads :
        /\ rfPc[t] = "unlock"
        /\ rfArg[t][1].idx # 0
        /\ ~rfArg[t][1].wrote
        /\ file.kind = "corrupt"

UniqueTriples(fs) ==
    \A i, j \in DOMAIN fs : ComboOf(fs[i]) = ComboOf(fs[j]) => i = j

\* C9: the ledger never holds two records of one (model, precision, device),
\* whatever the interleaving of the record_failure calls; a call for a triple
\* already recorded overwrites recorded_at, reason and snapshot of that record
\* and leaves the number of records, their order and all other records as they
\* were.
C9_OneRecordPerTriple ==
    [][ /\ UniqueTriples(failures')
        /\ \A t \in LedgerThreads :
              (rfPc[t] = "mutate" /\ rfPc'[t] = "save") =>
                LET a == rfArg[t][1]
                    i == FirstMatch(failures, a.model_id, a.precision, a.device)
                IN  i # 0 =>
                      /\ Len(failures') = Len(failures)
                      /\ \A k \in DOMAIN failures :
                            /\ ComboOf(failures'[k]) = ComboOf(failures[k])
                            /\ k # i => failures'[k] = failures[k]
                      /\ failures'[i].reason = a.reason
                      /\ failures'[i].snapshot = a.snapshot
                      /\ failures'[i].recorded_at = ledClock
      ]_vars

\* two records are held and a thread has just re-recorded the first of them
\* with a later timestamp
C9_Witness ==
    /\ Len(failures) = 2
    /\ \E t \in LedgerThreads :
          /\ rfPc[t] = "save"
          /\ rfArg[t][1].idx = 1
          /\ failures[1].recorded_at > failures[2].recorded_at

\* C10: when record_failure has written the file, a fresh ledger constructed
\* from that file with the same hardware fingerprint holds the same records in
\* the same order as the ledger in memory.
C10_SaveLoadRoundTrip ==
    \A t \in LedgerThreads :
        (rfPc[t] = "unlock" /\ rfArg[t][1].wrote) =>
            Load(file, hw_fingerprint) = failures

\* a list of two records, with and without a snapshot, has been written
C10_Witness ==
    \E t \in LedgerThreads :
        /\ rfPc[t] = "unlock"
        /\ rfArg[t][1].wrote
        /\ Len(failures) >= 2
        /\ \E i, j \in DOMAIN failures :
              IsNone(failures[i].snapshot) /\ ~IsNone(failures[j].snapshot)

\* the (model, precision, device) triples a caller can ask the ledger about
AllTriples ==
    {<<m, p, d>> : m \in ModelIds, p \in {"fp16", "bf16"}, d \in {"cuda", "cpu"}}

\* C11: when the file found at construction carries another hardware
\* fingerprint, the loaded ledger is empty (is_known_failure returns None for
\* every triple) until the first record_failure; when that first record_failure
\* has written the file, the file carries the current fingerprint and exactly
\* one record, the one just recorded, and no record of the old file is in it.
C11_StaleFileDiscarded ==
    /\ (ledLoad.stale /\ ledLoad.records = 0) =>
          \A c \in AllTriples : IsNone(is_known_failure(failures, c[1], c[2], c[3]))
    /\ \A t \in LedgerThreads :
          (rfPc[t] = "unlock" /\ rfArg[t][1].wrote
             /\ ledLoad.stale /\ ledLoad.records = 1) =>
              LET a == rfArg[t][1]
              IN  /\ file.kind = "json"
                  /\ file.version = 1
                  /\ file.hw_fingerprint = hw_fingerprint
                  /\ Len(file.failures) = 1
                  /\ ComboOf(JsonLoadsFailure(file.failures[1]))
                        = <<a.model_id, a.precision, a.device>>
                  /\ JsonLoadsFailure(file.failures[1]).reason = a.reason
                  /\ \A m \in LedgerModels, d \in {"cuda", "cpu"} :
                        JsonDumpsFailure(OldRecord(m, d)) # file.failures[1]

\* the file of other hardware held a record of the very triple that the first
\* record_failure of this process has just written
C11_Witness ==
    \E t \in LedgerThreads :
        /\ rfPc[t] = "unlock"
        /\ rfArg[t][1].wrote
        /\ ledLoad.stale
        /\ ledLoad.records = 1
        /\ rfArg[t][1].model_id = M33
        /\ rfArg[t][1].device = "cuda"

Combos(fs) == {ComboOf(fs[i]) : i \in DOMAIN fs}

\* C18: writes to the ledger are linearizable: after every step of
\* concurrently running record_failure calls the in-memory list equals the
\* list obtained by running the calls one after the other in the order of
\* their list updates; no step of a call removes a recorded triple; and
\* whenever the file is rewritten it holds exactly the in-memory list of that
\* moment, which is that sequential list.
C18_LedgerLinearizable ==
    [][ /\ failures' = ledLoad'.sequential
        /\ (\E t \in LedgerThreads : rfPc'[t] # rfPc[t]) =>
              Combos(failures) \subseteq Combos(failures')
        /\ (file' # file /\ file'.kind = "json") =>
              /\ file' = SaveData(hw_fingerprint, ledLoad.sequential)
              /\ Load(file', hw_fingerprint) = failures
      ]_vars

\* one thread has written the file with two records while the other thread,
\* which called record_failure for another triple in the meantime, waits for
\* the lock
C18_Witness ==
    \E t, u \in LedgerThreads :
        /\ t # u
        /\ rfPc[t] = "unlock"
        /\ rfArg[t][1].wrote
        /\ rfPc[u] = "lock"
        /\ ComboOf(rfArg[u][1]) # ComboOf(rfArg[t][1])
        /\ ledLoad.records = 2
        /\ Len(failures) = 2

(***************************************************************************)
(*               Model and precision selection (import time)               *)
(***************************************************************************)

\* bound: the number of records of the ledger the selection starts from
MaxSelLedger == 3

OVERHEAD_MB == 500

PARAMS_ALIAS == [a \in {"600m", "1.3b", "3.3b"} |->
                    IF a = "600m" THEN M06 ELSE IF a = "1.3b" THEN M13 ELSE M33]

\* 2 * BYTES_PER_PARAM.get(precision, 4)   (int4 is half a byte)
TwiceBytesPerParam(precision) ==
    CASE precision = "fp32" -> 8
      [] precision = "bf16" -> 4
      [] precision = "fp16" -> 4
      [] precision = "int8" -> 2
      [] precision = "int4" -> 1
      [] OTHER -> 8

\* Python round(n / d) for n >= 0, d > 0: to nearest, ties to even
RoundDiv(n, d) ==
    LET q == n \div d
        r == n % d
    IN  IF 2 * r < d THEN q
        ELSE IF 2 * r > d THEN q + 1
        ELSE IF q % 2 = 0 THEN q ELSE q + 1

\* _mem_mb: round(params_m * bpp * 1_000_000 / (1024 * 1024)) + OVERHEAD_MB,
\* with 1_000_000 / 2^20 reduced to 15625 / 16384
MemMb(params_m, precision) ==
    RoundDiv(params_m * TwiceBytesPerParam(precision) * 15625, 2 * 16384) + OVERHEAD_MB

\* _is_cached_failure
IsCachedFailure(fs, model_id, precision, device) ==
    ~IsNone(is_known_failure(fs, model_id, precision, device))

\* one "for spec in specs" scan of _resolve_model: the first spec that fits
\* in usable and is not a cached failure on ledgerDevice; None when the scan
\* falls through
FirstFit(specs, precision, usable, ledgerDevice, fs) ==
    LET ok == {i \in DOMAIN specs :
                 /\ MemMb(specs[i].params_m, precision) <= usable
                 /\ ~IsCachedFailure(fs, specs[i].model_id, precision, ledgerDevice)}
    IN  IF ok = {} THEN None
        ELSE Some(specs[CHOOSE i \in ok : \A j \in ok : i <= j].model_id)

\* fallback_chain = {"bf16": "fp16", "fp16": "int8", "int8": "int4"}
InFallbackChain(p) == p \in {"bf16", "fp16", "int8"}
FallbackOf(p) == IF p = "bf16" THEN "fp16" ELSE IF p = "fp16" THEN "int8" ELSE "int4"

\* the while loop over the fallback chain: the model of the first lower
\* precision at which a scan succeeds
RECURSIVE FallbackScan(_, _, _)
FallbackScan(current, usable, fs) ==
    IF ~InFallbackChain(current) THEN None
    ELSE LET lower == FallbackOf(current)
             hit == FirstFit(NLLB_SPECS, lower, usable, "cuda", fs)
         IN  IF ~IsNone(hit) THEN hit ELSE FallbackScan(lower, usable, fs)

CpuPractical(spec) == spec.cpu_practical

\* the CPU / MPS / XPU part of _resolve_model, ending in the absolute fallback
ResolveOnRam(precision, ram_mb, fs) ==
    LET usable == ram_mb - 4000
        cpu_specs == SelectSeq(NLLB_SPECS, CpuPractical)
        hit == FirstFit(cpu_specs, precision, usable, "cpu", fs)
    IN  IF ~IsNone(hit) THEN hit[1] ELSE NLLB_SPECS[Len(NLLB_SPECS)].model_id

\* the auto-select part of _resolve_model
AutoSelect(precision, device, h, fs) ==
    IF device = "cuda"
    THEN LET usable == h.vram_mb - 2000
             first == FirstFit(NLLB_SPECS, precision, usable, "cuda", fs)
             lower == FallbackScan(precision, usable, fs)
         IN  IF ~IsNone(first) THEN first[1]
             ELSE IF ~IsNone(lower) THEN lower[1]
             ELSE ResolveOnRam(precision, h.ram_mb, fs)
    ELSE ResolveOnRam(precision, h.ram_mb, fs)

\* a model or size override that _resolve_model honours
Forced(h) ==
    IF h.env_MODEL_NAME # "" THEN Some(h.env_MODEL_NAME)
    ELSE IF h.env_NLLB_PARAMS \in DOMAIN PARAMS_ALIAS
         THEN Some(PARAMS_ALIAS[h.env_NLLB_PARAMS])
    ELSE None

\* _warn_if_cached_failure(model_id, precision, device, forced=True): the
\* STRONG WARNING logged (the fields it prints), None when nothing is logged
warn_if_cached_failure(fs, model_id, precision, device) ==
    LET record == is_known_failure(fs, model_id, precision, device)
    IN  IF IsNone(record) THEN None
        ELSE Some([model_id |-> model_id, precision |-> precision, device |-> device,
                   reason |-> record[1].reason, recorded_at |-> record[1].recorded_at])

\* what _resolve_model(precision) logs as STRONG WARNING: only its two
\* override branches call _warn_if_cached_failure
ResolveModelWarning(precision, device, h, fs) ==
    IF ~IsNone(Forced(h)) THEN warn_if_cached_failure(fs, Forced(h)[1], precision, device)
    ELSE None

\* (mutant) an override that the ledger records is dropped for auto-selection
ResolveModel_OverrideYields(precision, device, h, fs) ==
    IF ~IsNone(Forced(h)) /\ ~IsCachedFailure(fs, Forced(h)[1], precision, device)
    THEN Forced(h)[1]
    ELSE AutoSelect(precision, device, h, fs)

\* _resolve_model(precision)
ResolveModel(precision, device, h, fs) ==
    IF ~IsNone(Forced(h)) THEN Forced(h)[1]
    ELSE AutoSelect(precision, device, h, fs)

\* _resolve_precision()
ResolvePrecision(device, h) ==
    IF h.env_NLLB_PRECISION # "" THEN h.env_NLLB_PRECISION
    ELSE IF device = "cuda" THEN (IF h.bf16_ok THEN "bf16" ELSE "fp16")
    ELSE IF device = "mps" THEN "bf16"
    ELSE IF device = "xpu" THEN "fp16"
    ELSE IF h.avx512bf16 THEN "bf16"
    ELSE "fp32"

\* the hosts the selection is checked on
Hosts(device) ==
    { [env_MODEL_NAME |-> mn, env_NLLB_PARAMS |-> pa, env_NLLB_PRECISION |-> pr,
       bf16_ok |-> b, avx512bf16 |-> a, vram_mb |-> v, ram_mb |-> r] :
        mn \in {"", M33}, pa \in {"", "1.3b", "2b"}, pr \in {"", "int8"},
        b \in (IF device = "cuda" THEN BOOLEAN ELSE {FALSE}),
        a \in (IF device = "cpu" THEN BOOLEAN ELSE {FALSE}),
        v \in (IF device = "cuda" THEN {3500, 6000, 12000} ELSE {0}),
        r \in {8000, 32000} }

\* the combos a ledger left by earlier runs may hold
SelCombos == ModelIds \X {"fp32", "fp16", "int8"} \X {"cuda", "cpu"}

RECURSIVE SetToSeq(_)
SetToSeq(S) ==
    IF S = {} THEN <<>>
    ELSE LET x == CHOOSE y \in S : TRUE IN <<x>> \o SetToSeq(S \ {x})

LedgerOf(S) ==
    LET q == SetToSeq(S)
    IN  [i \in DOMAIN q |->
            [model_id |-> q[i][1], precision |-> q[i][2], device |-> q[i][3],
             recorded_at |-> 0, reason |-> "ram_available=800 < hard=1000",
             snapshot |-> None]]

\* the process starts: pressure_cache = _create_pressure_cache() has loaded the
\* ledger; PRECISION and MODEL_NAME are not resolved yet
SelInit ==
    /\ BenchIdle
    /\ MonitorIdle
    /\ ServiceIdle
    /\ PollIdle
    /\ HealthIdle
    /\ DEVICE \in {"cuda", "cpu", "mps"}
    /\ host \in Hosts(DEVICE)
    /\ PRECISION = ""
    /\ MODEL_NAME = ""
    /\ tokenizer = None
    /\ model = None
    /\ startPc = "precision"
    /\ strongWarning = None
    /\ hw_fingerprint = "RTX:8192:32000"
    /\ \E S \in SUBSET SelCombos :
          /\ Cardinality(S) <= MaxSelLedger
          /\ failures = LedgerOf(S)
    /\ file = SaveData(hw_fingerprint, failures)
    /\ cacheLock = None
    /\ rfPc = [t \in LedgerThreads |-> "idle"]
    /\ rfArg = [t \in LedgerThreads |-> None]
    /\ ledClock = 0
    /\ ledLoad = [stale |-> FALSE, records |-> 0, sequential |-> failures]

\* PRECISION = _resolve_precision()
StartResolvePrecision ==
    /\ startPc = "precision"
    /\ PRECISION' = ResolvePrecision(DEVICE, host)
    /\ startPc' = "model"
    /\ UNCHANGED <<othersSel, ledVars, host, DEVICE, MODEL_NAME, tokenizer, model,
                   strongWarning>>

\* MODEL_NAME = _resolve_model(PRECISION)
StartResolveModel ==
    /\ startPc = "model"
    /\ MODEL_NAME' = ResolveModel(PRECISION, DEVICE, host, failures)
    /\ strongWarning' = ResolveModelWarning(PRECISION, DEVICE, host, failures)
    /\ startPc' = "load"
    /\ UNCHANGED <<othersSel, ledVars, host, DEVICE, PRECISION, tokenizer, model>>

\* load_model(): the tokenizer and the model of MODEL_NAME at PRECISION on DEVICE
StartLoadModel ==
    /\ startPc = "load"
    /\ tokenizer' = Some(MODEL_NAME)
    /\ model' = Some([model_id |-> MODEL_NAME, precision |-> PRECISION,
                      device |-> DEVICE, placed |-> TRUE])
    /\ startPc' = "ready"
    /\ UNCHANGED <<othersSel, ledVars, host, DEVICE, PRECISION, MODEL_NAME,
                   strongWarning>>

SelNext ==
    \/ StartResolvePrecision
    \/ StartResolveModel
    \/ StartLoadModel

SpecSelect == SelInit /\ [][SelNext]_vars

\* C5: with no model or size override, the (model, precision, device) the
\* server loads after auto-selection is not recorded in the failure ledger.
C5_AutoSelectAvoidsLedger ==
    (startPc = "ready" /\ IsNone(Forced(host))) =>
        IsNone(is_known_failure(failures, model[1].model_id, model[1].precision,
                                model[1].device))

\* C17: when MODEL_NAME or a valid NLLB_PARAMS alias is set in the environment,
\* _resolve_model returns exactly the forced model (the MODEL_NAME value, else
\* the model of the alias) whatever the ledger holds and whatever the memory
\* sizes are, and it has logged the STRONG WARNING if and only if the ledger
\* holds a record of (forced model, PRECISION, DEVICE).
C17_OverrideHonoured ==
    (startPc \in {"load", "ready"}
       /\ (host.env_MODEL_NAME # "" \/ host.env_NLLB_PARAMS \in DOMAIN PARAMS_ALIAS)) =>
        LET forced == IF host.env_MODEL_NAME # "" THEN host.env_MODEL_NAME
                      ELSE PARAMS_ALIAS[host.env_NLLB_PARAMS]
        IN  /\ MODEL_NAME = forced
            /\ ~IsNone(strongWarning) <=>
                  \E i \in DOMAIN failures :
                     ComboOf(failures[i]) = <<forced, PRECISION, DEVICE>>

\* a size alias forces the 1.3B model on a GPU too small for it, the ledger
\* records that very combination, and the warning has been logged
C17_Witness ==
    /\ startPc = "ready"
    /\ host.env_MODEL_NAME = ""
    /\ host.env_NLLB_PARAMS = "1.3b"
    /\ host.vram_mb = 6000
    /\ PRECISION = "fp16"
    /\ MODEL_NAME = M13
    /\ ~IsNone(strongWarning)
    /\ \E i \in DOMAIN failures : ComboOf(failures[i]) = <<M13, "fp16", "cuda">>

(***************************************************************************)
(*                     /benchmark: cache, lock, joiners                    *)
(***************************************************************************)

\* bound: number of /benchmark requests in one behaviour
MaxBenchRequests == 3

Response(status, combos, cached, joined) ==
    [status |-> status, combos |-> combos, cached |-> cached, joined |-> joined]

\* a request arrives; cache_key = _benchmark_cache_key(hw_fp, req)
BStart(h) ==
    /\ bPc[h] \in {"idle", "done"}
    /\ bReqs < MaxBenchRequests
    /\ bReqs' = bReqs + 1
    /\ \E k \in BenchKeys : bKey' = [bKey EXCEPT ![h] = k]
    /\ bPc' = [bPc EXCEPT ![h] = "cache"]
    /\ bFut' = [bFut EXCEPT ![h] = 0]
    /\ bSeen' = [bSeen EXCEPT ![h] = None]
    /\ bResp' = [bResp EXCEPT ![h] = None]
    /\ UNCHANGED <<othersBench, keyVars, benchLock, benchFuture, futures, benchCache, sweeps>>

\* (mutant) a cache hit sets cached on the stored response itself (no copy)
BCheckCache_MarksEntry(h) ==
    /\ bPc[h] = "cache"
    /\ IF ~IsNone(benchCache[bKey[h]])
       THEN /\ benchCache' = [benchCache EXCEPT ![bKey[h]] =
                                Some([@[1] EXCEPT !.cached = TRUE])]
            /\ bResp' = [bResp EXCEPT ![h] = benchCache'[bKey[h]]]
            /\ bPc' = [bPc EXCEPT ![h] = "done"]
       ELSE /\ bPc' = [bPc EXCEPT ![h] = "acquire"]
            /\ UNCHANGED <<bResp, benchCache>>
    /\ UNCHANGED <<othersBench, keyVars, benchLock, benchFuture, futures,
                   bKey, bFut, bSeen, sweeps, bReqs>>

\* if cache_key in _benchmark_cache: return the stored response, cached=True
BCheckCache(h) ==
    /\ bPc[h] = "cache"
    /\ IF ~IsNone(benchCache[bKey[h]])
       THEN /\ bResp' = [bResp EXCEPT ![h] =
                          Some([benchCache[bKey[h]][1] EXCEPT !.cached = TRUE])]
            /\ bPc' = [bPc EXCEPT ![h] = "done"]
       ELSE /\ bPc' = [bPc EXCEPT ![h] = "acquire"]
            /\ UNCHANGED bResp
    /\ UNCHANGED <<othersBench, keyVars, benchLock, benchFuture, futures, benchCache,
                   bKey, bFut, bSeen, sweeps, bReqs>>

\* acquired = _benchmark_lock.acquire(blocking=False)
BAcquire(h) ==
    /\ bPc[h] = "acquire"
    /\ IF IsNone(benchLock)
       THEN /\ benchLock' = Some(h)
            /\ bPc' = [bPc EXCEPT ![h] = "publish"]
            /\ UNCHANGED bSeen
       ELSE /\ bSeen' = [bSeen EXCEPT ![h] = Some(bKey[benchLock[1]])]
            /\ bPc' = [bPc EXCEPT ![h] = "future"]
            /\ UNCHANGED benchLock
    /\ UNCHANGED <<othersBench, keyVars, benchFuture, futures, benchCache, bKey, bFut,
                   bResp, sweeps, bReqs>>

\* not acquired: future = _benchmark_future; join it when its key is ours,
\* else 409
BReadFuture(h) ==
    /\ bPc[h] = "future"
    /\ IF benchFuture # 0 /\ futures[benchFuture].key = bKey[h]
       THEN /\ bFut' = [bFut EXCEPT ![h] = benchFuture]
            /\ bPc' = [bPc EXCEPT ![h] = "wait"]
            /\ UNCHANGED bResp
       ELSE /\ bResp' = [bResp EXCEPT ![h] = Some(Response(409, 0, FALSE, FALSE))]
            /\ bPc' = [bPc EXCEPT ![h] = "done"]
            /\ UNCHANGED bFut
    /\ UNCHANGED <<othersBench, keyVars, benchLock, benchFuture, futures, benchCache,
                   bKey, bSeen, sweeps, bReqs>>

\* future["event"].wait(); 500 when the result is None, else the result with
\* joined=True
BWait(h) ==
    /\ bPc[h] = "wait"
    /\ futures[bFut[h]].event
    /\ bResp' = [bResp EXCEPT ![h] =
          IF IsNone(futures[bFut[h]].result)
          THEN Some(Response(500, 0, FALSE, FALSE))
          ELSE Some([futures[bFut[h]].result[1] EXCEPT !.joined = TRUE])]
    /\ bPc' = [bPc EXCEPT ![h] = "done"]
    /\ UNCHANGED <<othersBench, keyVars, benchLock, benchFuture, futures, benchCache,
                   bKey, bFut, bSeen, sweeps, bReqs>>

\* the lock holder: _benchmark_future = {"key": cache_key, "result": None,
\* "event": threading.Event()}
BPublish(h) ==
    /\ bPc[h] = "publish"
    /\ futures' = Append(futures, [key |-> bKey[h], result |-> None, event |-> FALSE])
    /\ benchFuture' = Len(futures) + 1
    /\ bPc' = [bPc EXCEPT ![h] = "run"]
    /\ UNCHANGED <<othersBench, keyVars, benchLock, benchCache, bKey, bFut, bSeen, bResp,
                   sweeps, bReqs>>

\* result = _run_benchmark(req, hw_fp): it returns, raises an Exception, or
\* ends in a SystemExit (raised by _build_load_kwargs, not an Exception)
BRun(h) ==
    /\ bPc[h] = "run"
    /\ sweeps' = sweeps + 1
    /\ \E outcome \in {"store", "except", "exit"} :
          bPc' = [bPc EXCEPT ![h] = outcome]
    /\ UNCHANGED <<othersBench, keyVars, benchLock, benchFuture, futures, benchCache,
                   bKey, bFut, bSeen, bResp, bReqs>>

\* _benchmark_cache[cache_key] = BenchmarkCacheEntry(response=result_dict, ...)
BStoreCache(h) ==
    /\ bPc[h] = "store"
    /\ benchCache' = [benchCache EXCEPT ![bKey[h]] =
                        Some(Response(200, sweeps, FALSE, FALSE))]
    /\ bPc' = [bPc EXCEPT ![h] = "result"]
    /\ UNCHANGED <<othersBench, keyVars, benchLock, benchFuture, futures, bKey, bFut,
                   bSeen, bResp, sweeps, bReqs>>

\* _benchmark_future["result"] = result_dict
BSetResult(h) ==
    /\ bPc[h] = "result"
    /\ futures' = [futures EXCEPT ![benchFuture].result =
                      Some(Response(200, sweeps, FALSE, FALSE))]
    /\ bPc' = [bPc EXCEPT ![h] = "event"]
    /\ UNCHANGED <<othersBench, keyVars, benchLock, benchFuture, benchCache, bKey, bFut,
                   bSeen, bResp, sweeps, bReqs>>

\* _benchmark_future["event"].set(); return result
BSetEvent(h) ==
    /\ bPc[h] = "event"
    /\ futures' = [futures EXCEPT ![benchFuture].event = TRUE]
    /\ bResp' = [bResp EXCEPT ![h] = Some(Response(200, sweeps, FALSE, FALSE))]
    /\ bPc' = [bPc EXCEPT ![h] = "release"]
    /\ UNCHANGED <<othersBench, keyVars, benchLock, benchFuture, benchCache, bKey, bFut,
                   bSeen, sweeps, bReqs>>

\* except Exception: _benchmark_future["event"].set(); raise
BExcept(h) ==
    /\ bPc[h] = "except"
    /\ futures' = [futures EXCEPT ![benchFuture].event = TRUE]
    /\ bResp' = [bResp EXCEPT ![h] = Some(Response(500, 0, FALSE, FALSE))]
    /\ bPc' = [bPc EXCEPT ![h] = "release"]
    /\ UNCHANGED <<othersBench, keyVars, benchLock, benchFuture, benchCache, bKey, bFut,
                   bSeen, sweeps, bReqs>>

\* a SystemExit passes the except clause: only the finally block runs
BExit(h) ==
    /\ bPc[h] = "exit"
    /\ bResp' = [bResp EXCEPT ![h] = Some(Response(500, 0, FALSE, FALSE))]
    /\ bPc' = [bPc EXCEPT ![h] = "release"]
    /\ UNCHANGED <<othersBench, keyVars, benchLock, benchFuture, futures, benchCache,
                   bKey, bFut, bSeen, sweeps, bReqs>>

\* finally: _benchmark_lock.release()
BRelease(h) ==
    /\ bPc[h] = "release"
    /\ benchLock' = None
    /\ bPc' = [bPc EXCEPT ![h] = "done"]
    /\ UNCHANGED <<othersBench, keyVars, benchFuture, futures, benchCache, bKey, bFut,
                   bSeen, bResp, sweeps, bReqs>>

\* DELETE /benchmark/cache: _benchmark_cache.clear()
ClearBenchmarkCache ==
    /\ \E k \in BenchKeys : ~IsNone(benchCache[k])
    /\ benchCache' = [k \in BenchKeys |-> None]
    /\ UNCHANGED <<othersBench, keyVars, benchLock, benchFuture, futures, bPc, bKey, bFut,
                   bSeen, bResp, sweeps, bReqs>>

BenchInit ==
    /\ GlobalsLoaded(M33)
    /\ LedgerIdle
    /\ MonitorIdle
    /\ ServiceIdle
    /\ PollIdle
    /\ HealthIdle
    /\ BenchIdle

BenchNext ==
    \/ \E h \in BenchClients : BStart(h)
    \/ \E h \in BenchClients : BCheckCache(h)
    \/ \E h \in BenchClients : BAcquire(h)
    \/ \E h \in BenchClients : BReadFuture(h)
    \/ \E h \in BenchClients : BWait(h)
    \/ \E h \in BenchClients : BPublish(h)
    \/ \E h \in BenchClients : BRun(h)
    \/ \E h \in BenchClients : BStoreCache(h)
    \/ \E h \in BenchClients : BSetResult(h)
    \/ \E h \in BenchClients : BSetEvent(h)
    \/ \E h \in BenchClients : BExcept(h)
    \/ \E h \in BenchClients : BExit(h)
    \/ \E h \in BenchClients : BRelease(h)
    \/ ClearBenchmarkCache

SpecBench == BenchInit /\ [][BenchNext]_vars

\* C6: a request that completes while another request with the same cache key
\* holds the benchmark lock (from its acquire to its release, so also before it
\* has published its in-flight record and after it has stored its result)
\* completes with status 200, joined:true and the combos of the lock holder's
\* sweep; it is not rejected with 409, does not fail with 500 and is not a
\* second runner.
C6_SameKeyJoins ==
    [][ \A h \in BenchClients :
          ( /\ bPc[h] # "done"
            /\ bPc'[h] = "done"
            /\ ~IsNone(benchLock)
            /\ benchLock[1] # h
            /\ bKey[benchLock[1]] = bKey[h] )
          => /\ bResp'[h][1].status = 200
             /\ bResp'[h][1].joined
             /\ benchFuture # 0
             /\ ~IsNone(futures[benchFuture].result)
             /\ bResp'[h][1].combos = futures[benchFuture].result[1].combos
      ]_vars

\* C7: a request that finds the benchmark lock held by a request with another
\* cache key does not wait on an in-flight record and completes with 409.
C7_OtherKeyRejected ==
    \A h \in BenchClients :
        (~IsNone(bSeen[h]) /\ bSeen[h][1] # bKey[h]) =>
            /\ bPc[h] # "wait"
            /\ bPc[h] = "done" => bResp[h][1].status = 409

\* C20: a request whose cache check finds an entry for its key (a benchmark
\* with that key has completed and the cache has not been cleared since)
\* returns the stored response with cached:true, without taking the benchmark
\* lock and without a sweep; every stored entry has cached:false and
\* joined:false, and neither a cache hit nor a joiner's return changes an
\* entry.
C20_CacheHitServesStored ==
    [][ /\ \A k \in BenchKeys :
              ~IsNone(benchCache'[k]) =>
                 (~benchCache'[k][1].cached /\ ~benchCache'[k][1].joined)
        /\ \A h \in BenchClients :
              (bPc[h] = "cache" /\ bPc'[h] # "cache" /\ ~IsNone(benchCache[bKey[h]])) =>
                 /\ bPc'[h] = "done"
                 /\ bResp'[h][1].status = 200
                 /\ bResp'[h][1].combos = benchCache[bKey[h]][1].combos
                 /\ bResp'[h][1].cached
                 /\ ~bResp'[h][1].joined
                 /\ benchLock' = benchLock
                 /\ sweeps' = sweeps
                 /\ benchCache' = benchCache
        /\ \A h \in BenchClients :
              (bPc[h] = "wait" /\ bPc'[h] = "done") =>
                 (benchCache' = benchCache /\ futures' = futures)
      ]_vars

\* after one sweep both callers have been served the stored response of the
\* same key with cached:true, one after the other, and the entry is unchanged
C20_Witness ==
    /\ sweeps = 1
    /\ bKey["a"] = bKey["b"]
    /\ \A h \in BenchClients :
          /\ bPc[h] = "done"
          /\ bResp[h][1].status = 200
          /\ bResp[h][1].cached
    /\ ~IsNone(benchCache[bKey["a"]])
    /\ ~benchCache[bKey["a"]][1].cached

(***************************************************************************)
(*              ResourceMonitor: sampler and clear_pressure                *)
(***************************************************************************)

\* bound: number of sampler iterations in one behaviour
MaxSamples == 3
\* bound: number of clear_pressure calls made by benchmark sweeps
MaxClears == 1

\* the limits _create_resource_monitor passes when the environment sets none
vram_soft_mb == 2000
vram_hard_mb == 500
ram_soft_mb == 4000
ram_hard_mb == 1000
swap_hard_mb == 0
\* self._swap_baseline_mb of the modelled host
swap_baseline_mb == 0
\* self._has_cuda = torch.cuda.is_available(), which is what makes DEVICE
\* "cuda"; self._vram_total_mb is the card's memory, 0 without a GPU
has_cuda == DEVICE = "cuda"
vram_total_mb == IF has_cuda THEN 8192 ELSE 0

\* what /proc/meminfo, /proc/self/status and torch report at one instant
Reading(vram_alloc, ram_available, vmswap) ==
    [vram_alloc |-> vram_alloc, MemTotal |-> 32000,
     MemAvailable |-> ram_available, SwapTotal |-> 2048, SwapFree |-> 2048,
     VmSwap |-> vmswap]

Readings == {
    Reading(1000, 8000, 0),     \* everything above the soft limits
    Reading(1000, 3000, 0),     \* RAM below soft
    Reading(1000, 500, 0),      \* RAM below hard
    Reading(8000, 8000, 0),     \* VRAM below hard, RAM fine
    Reading(8000, 2500, 0) }    \* VRAM below hard, RAM below soft

\* snapshot(): the ResourceSnapshot built from a reading at time now, on
\* stable readings: both TTF fields are None (snapshot_with_velocity below
\* fills them from the trackers).  torch is asked for the allocation only
\* when there is a GPU
Snapshot(r, now) ==
    [timestamp |-> now,
     vram_allocated_mb |-> IF has_cuda THEN r.vram_alloc ELSE 0,
     vram_total_mb |-> vram_total_mb,
     vram_free_mb |-> vram_total_mb - (IF has_cuda THEN r.vram_alloc ELSE 0),
     vram_ttf_s |-> None,
     ram_available_mb |-> r.MemAvailable,
     ram_total_mb |-> r.MemTotal,
     ram_ttf_s |-> None,
     swap_used_mb |-> r.SwapTotal - r.SwapFree,
     swap_total_mb |-> r.SwapTotal,
     process_swap_mb |-> r.VmSwap]

\* set_load_context: the LoadContext built from the snapshot it takes
LoadContext(model_id, estimated_total_mb, snap) ==
    [model_id |-> model_id,
     estimated_total_mb |-> estimated_total_mb,
     vram_baseline_mb |-> snap.vram_allocated_mb,
     ram_baseline_mb |-> snap.ram_total_mb - snap.ram_available_mb]

\* get_load_progress(snap)["will_ram_survive"]; TRUE when no load is running
\* (the callers test "load_progress and not will_ram_survive")
WillRamSurvive(ctx, snap) ==
    IF IsNone(ctx) THEN TRUE
    ELSE LET c == ctx[1]
             vram_delta == Max(0, snap.vram_allocated_mb - c.vram_baseline_mb)
             ram_used_now == snap.ram_total_mb - snap.ram_available_mb
             ram_delta == Max(0, ram_used_now - c.ram_baseline_mb)
             consumed == vram_delta + ram_delta
             remaining == Max(0, c.estimated_total_mb - consumed)
             remaining_to_ram == Max(0, remaining - snap.vram_free_mb)
             ram_after_load == snap.ram_available_mb - remaining_to_ram
         IN  ram_after_load > ram_hard_mb

\* ", ".join(reasons), "" for an empty list (the callers treat "" as None)
RECURSIVE Join(_)
Join(reasons) ==
    IF reasons = <<>> THEN ""
    ELSE IF Len(reasons) = 1 THEN reasons[1]
    ELSE reasons[1] \o ", " \o Join(Tail(reasons))

When(cond, text) == IF cond THEN <<text>> ELSE <<>>

\* (mutant) the VRAM soft check is made without asking whether there is a GPU
check_arm_conditions_NoGpuGuard(snap, ctx) ==
    Join(
      When(snap.vram_free_mb < vram_soft_mb,
           "vram_free=" \o ToString(snap.vram_free_mb) \o " < soft="
              \o ToString(vram_soft_mb))
      \o When(snap.ram_available_mb < ram_soft_mb,
           "ram_available=" \o ToString(snap.ram_available_mb) \o " < soft="
              \o ToString(ram_soft_mb))
      \o When(~IsNone(snap.vram_ttf_s) /\ snap.vram_ttf_s[1] < 100, "vram_ttf < 10s")
      \o When(~IsNone(snap.ram_ttf_s) /\ snap.ram_ttf_s[1] < 300, "ram_ttf < 30s")
      \o When(~WillRamSurvive(ctx, snap), "load_predict") )

\* _check_arm_conditions (the TTF fields are in tenths of a second)
check_arm_conditions(snap, ctx) ==
    Join(
      When(vram_total_mb > 0 /\ snap.vram_free_mb < vram_soft_mb,
           "vram_free=" \o ToString(snap.vram_free_mb) \o " < soft="
              \o ToString(vram_soft_mb))
      \o When(snap.ram_available_mb < ram_soft_mb,
           "ram_available=" \o ToString(snap.ram_available_mb) \o " < soft="
              \o ToString(ram_soft_mb))
      \o When(~IsNone(snap.vram_ttf_s) /\ snap.vram_ttf_s[1] < 100, "vram_ttf < 10s")
      \o When(~IsNone(snap.ram_ttf_s) /\ snap.ram_ttf_s[1] < 300, "ram_ttf < 30s")
      \o When(~WillRamSurvive(ctx, snap), "load_predict") )

\* _check_vram_hard
check_vram_hard(snap) ==
    IF vram_total_mb > 0 /\ snap.vram_free_mb < vram_hard_mb
    THEN "vram_free=" \o ToString(snap.vram_free_mb) \o " < hard="
            \o ToString(vram_hard_mb)
    ELSE ""

\* (mutant) the load prediction is a hard condition whatever RAM is left now
check_hard_conditions_PredictionAlone(snap, ctx) ==
    LET swap_delta == Max(0, snap.swap_used_mb - swap_baseline_mb)
    IN  Join(
          When(snap.ram_available_mb < ram_hard_mb,
               "ram_available=" \o ToString(snap.ram_available_mb) \o " < hard="
                  \o ToString(ram_hard_mb))
          \o When(swap_delta > swap_hard_mb,
               "swap_delta=" \o ToString(swap_delta) \o " > hard="
                  \o ToString(swap_hard_mb))
          \o When(snap.process_swap_mb > 0,
               "process_vmswap=" \o ToString(snap.process_swap_mb) \o " > 0")
          \o When(~WillRamSurvive(ctx, snap), "load_will_exhaust_ram") )

\* (mutant) the RAM hard limit is compared with <=
check_hard_conditions_Inclusive(snap, ctx) ==
    LET swap_delta == Max(0, snap.swap_used_mb - swap_baseline_mb)
    IN  Join(
          When(snap.ram_available_mb <= ram_hard_mb,
               "ram_available=" \o ToString(snap.ram_available_mb) \o " < hard="
                  \o ToString(ram_hard_mb))
          \o When(swap_delta > swap_hard_mb,
               "swap_delta=" \o ToString(swap_delta) \o " > hard="
                  \o ToString(swap_hard_mb))
          \o When(snap.process_swap_mb > 0,
               "process_vmswap=" \o ToString(snap.process_swap_mb) \o " > 0")
          \o When(~WillRamSurvive(ctx, snap) /\ snap.ram_available_mb < ram_soft_mb,
               "load_will_exhaust_ram") )

\* _check_hard_conditions
check_hard_conditions(snap, ctx) ==
    LET swap_delta == Max(0, snap.swap_used_mb - swap_baseline_mb)
    IN  Join(
          When(snap.ram_available_mb < ram_hard_mb,
               "ram_available=" \o ToString(snap.ram_available_mb) \o " < hard="
                  \o ToString(ram_hard_mb))
          \o When(swap_delta > swap_hard_mb,
               "swap_delta=" \o ToString(swap_delta) \o " > hard="
                  \o ToString(swap_hard_mb))
          \o When(snap.process_swap_mb > 0,
               "process_vmswap=" \o ToString(snap.process_swap_mb) \o " > 0")
          \o When(~WillRamSurvive(ctx, snap) /\ snap.ram_available_mb < ram_soft_mb,
               "load_will_exhaust_ram") )

\* (mutant) the timeline is a plain list: nothing is evicted
add_timeline_Unbounded(tl, event, trigger, snap, extra) ==
    Append(tl, [t_epoch |-> snap.timestamp, event |-> event, trigger |-> trigger,
                extra |-> extra])

\* _add_timeline: a deque with maxlen 32 (the snapshot of an event is
\* identified by its t_epoch)
add_timeline(tl, event, trigger, snap, extra) ==
    LET ev == [t_epoch |-> snap.timestamp, event |-> event, trigger |-> trigger,
               extra |-> extra]
    IN  IF Len(tl) = 32 THEN Append(Tail(tl), ev) ELSE Append(tl, ev)

\* what one branch of the if/elif chain of _poll_loop decides to write:
\* target is the new level ("" when self.state is not assigned), reason the
\* new pressure_reason ("" when it is not assigned), event/trigger the
\* timeline entry ("" when none is added)
Plan(target, reason, event, trigger) ==
    [target |-> target, reason |-> reason, event |-> event, trigger |-> trigger]

\* if self.state == PressureLevel.OK
BranchOK(snap, ctx) ==
    LET arm_reason == check_arm_conditions(snap, ctx)
    IN  IF arm_reason # "" THEN Plan("warn", "", "ARMED", arm_reason)
        ELSE Plan("", "", "", "")

\* (mutant) a VRAM hard breach at level WARN fires the kill line
BranchWARN_VramKills(snap, ctx, vram_hard_reason) ==
    LET hard_reason == check_hard_conditions(snap, ctx)
    IN  IF hard_reason # ""
        THEN Plan("critical", hard_reason, "CRITICAL", hard_reason)
        ELSE IF vram_hard_reason # ""
        THEN Plan("critical", vram_hard_reason, "CRITICAL", vram_hard_reason)
        ELSE IF check_arm_conditions(snap, ctx) = ""
        THEN Plan("ok", "", "DISARMED", "all metrics above soft limits")
        ELSE Plan("", "", "", "")

\* elif self.state == PressureLevel.WARN
BranchWARN(snap, ctx, vram_hard_reason) ==
    LET hard_reason == check_hard_conditions(snap, ctx)
    IN  IF hard_reason # ""
        THEN Plan("critical", hard_reason, "CRITICAL", hard_reason)
        ELSE IF vram_hard_reason # ""
        THEN Plan("vram_full", "", "VRAM_FULL", vram_hard_reason)
        ELSE IF check_arm_conditions(snap, ctx) = ""
        THEN Plan("ok", "", "DISARMED", "all metrics above soft limits")
        ELSE Plan("", "", "", "")

\* (mutant) at level VRAM_FULL the recovery of VRAM is looked at first
BranchVRAM_FULL_RecoveryFirst(snap, ctx, vram_hard_reason) ==
    LET hard_reason == check_hard_conditions(snap, ctx)
    IN  IF vram_hard_reason = ""
        THEN IF check_arm_conditions(snap, ctx) # ""
             THEN Plan("warn", "", "VRAM_RECOVERED", "VRAM freed, still armed")
             ELSE Plan("ok", "", "DISARMED", "VRAM recovered, all clear")
        ELSE IF hard_reason # ""
        THEN Plan("critical", hard_reason, "CRITICAL",
                  "RAM/swap breached while VRAM full: " \o hard_reason)
        ELSE Plan("", "", "", "")

\* elif self.state == PressureLevel.VRAM_FULL
BranchVRAM_FULL(snap, ctx, vram_hard_reason) ==
    LET hard_reason == check_hard_conditions(snap, ctx)
    IN  IF hard_reason # ""
        THEN Plan("critical", hard_reason, "CRITICAL",
                  "RAM/swap breached while VRAM full: " \o hard_reason)
        ELSE IF vram_hard_reason = ""
        THEN IF check_arm_conditions(snap, ctx) # ""
             THEN Plan("warn", "", "VRAM_RECOVERED", "VRAM freed, still armed")
             ELSE Plan("ok", "", "DISARMED", "VRAM recovered, all clear")
        ELSE Plan("", "", "", "")

\* (mutant) at level CRITICAL a snapshot with nothing breached disarms
BranchCRITICAL_Recovers(snap, ctx) ==
    IF check_hard_conditions(snap, ctx) = "" /\ check_arm_conditions(snap, ctx) = ""
    THEN Plan("ok", "", "DISARMED", "all metrics above soft limits")
    ELSE Plan("", check_hard_conditions(snap, ctx), "", "")

\* else (CRITICAL): only pressure_reason and pressure_snapshot are refreshed
BranchCRITICAL(snap, ctx) ==
    Plan("", check_hard_conditions(snap, ctx), "", "")

\* where the sampler goes after a branch has decided
AfterDispatch(plan) ==
    IF plan.target # "" THEN "state"
    ELSE IF plan.reason # "" THEN "reason"
    ELSE "snapshot"

\* snap = self.snapshot(); vram_hard_reason = self._check_vram_hard(snap)
SSnapshot ==
    /\ sPc = "snapshot"
    /\ samples < MaxSamples
    /\ samples' = samples + 1
    /\ \E r \in world :
          /\ sSnap' = Some(Snapshot(r, clock))
          /\ last_snapshot' = Some(Snapshot(r, clock))
          /\ sVramHard' = check_vram_hard(Snapshot(r, clock))
    /\ clock' = clock + 1
    /\ sPlan' = None
    /\ sPc' = "if_ok"
    /\ UNCHANGED <<othersMon, monShared, monFlags, load_context, timeline,
                   world, cPc, clears, clearedAt>>

\* if self.state == PressureLevel.OK: ... interval = normal_interval_s
SDispatchOK ==
    /\ sPc = "if_ok"
    /\ IF state = "ok"
       THEN /\ sPlan' = Some(BranchOK(sSnap[1], load_context))
            /\ sPc' = AfterDispatch(BranchOK(sSnap[1], load_context))
       ELSE /\ sPc' = "if_warn"
            /\ UNCHANGED sPlan
    /\ UNCHANGED <<othersMon, monShared, monFlags, sSnap, sVramHard,
                   load_context, timeline, last_snapshot, clock, samples, world, cPc,
                   clears, clearedAt>>

\* elif self.state == PressureLevel.WARN: ...
SDispatchWARN ==
    /\ sPc = "if_warn"
    /\ IF state = "warn"
       THEN /\ sPlan' = Some(BranchWARN(sSnap[1], load_context, sVramHard))
            /\ sPc' = AfterDispatch(BranchWARN(sSnap[1], load_context, sVramHard))
       ELSE /\ sPc' = "if_vram_full"
            /\ UNCHANGED sPlan
    /\ UNCHANGED <<othersMon, monShared, monFlags, sSnap, sVramHard,
                   load_context, timeline, last_snapshot, clock, samples, world, cPc,
                   clears, clearedAt>>

\* elif self.state == PressureLevel.VRAM_FULL: ... else: ...
SDispatchVRAM_FULL ==
    /\ sPc = "if_vram_full"
    /\ LET plan == IF state = "vram_full"
                   THEN BranchVRAM_FULL(sSnap[1], load_context, sVramHard)
                   ELSE BranchCRITICAL(sSnap[1], load_context)
       IN  /\ sPlan' = Some(plan)
           /\ sPc' = AfterDispatch(plan)
    /\ UNCHANGED <<othersMon, monShared, monFlags, sSnap, sVramHard,
                   load_context, timeline, last_snapshot, clock, samples, world, cPc,
                   clears, clearedAt>>

\* self.state = <new level>; for a level other than CRITICAL the timeline
\* entry follows and the iteration ends.  VRAM_FULL is assigned under
\* "if self.state != PressureLevel.VRAM_FULL"
SWriteState ==
    /\ sPc = "state"
    /\ LET plan == sPlan[1]
       IN  IF plan.target = "critical"
           THEN /\ state' = "critical"
                /\ sPc' = "event"
                /\ UNCHANGED timeline
           ELSE /\ sPc' = "snapshot"
                /\ IF plan.target = "vram_full" /\ state = "vram_full"
                   THEN UNCHANGED <<state, timeline>>
                   ELSE /\ state' = plan.target
                        /\ timeline' = add_timeline(timeline, plan.event,
                                                    plan.trigger, sSnap[1], None)
    /\ UNCHANGED <<othersMon, pressure_event, pressure_reason, pressure_snapshot,
                   monFlags, sSnap, sVramHard, sPlan, load_context,
                   last_snapshot, clock, samples, world, cPc, clears, clearedAt>>

\* self.pressure_event.set()
SSetEvent ==
    /\ sPc = "event"
    /\ pressure_event' = TRUE
    /\ sPc' = "reason"
    /\ UNCHANGED <<othersMon, state, pressure_reason, pressure_snapshot,
                   monFlags, sSnap, sVramHard, sPlan, load_context, timeline,
                   last_snapshot, clock, samples, world, cPc, clears, clearedAt>>

\* self.pressure_reason = hard_reason
SWriteReason ==
    /\ sPc = "reason"
    /\ pressure_reason' = sPlan[1].reason
    /\ sPc' = "psnap"
    /\ UNCHANGED <<othersMon, state, pressure_event, pressure_snapshot,
                   monFlags, sSnap, sVramHard, sPlan, load_context, timeline,
                   last_snapshot, clock, samples, world, cPc, clears, clearedAt>>

\* self.pressure_snapshot = snap; self._add_timeline("CRITICAL", ...) when the
\* level was raised
SWriteSnapshot ==
    /\ sPc = "psnap"
    /\ pressure_snapshot' = sSnap
    /\ timeline' = IF sPlan[1].event # ""
                   THEN add_timeline(timeline, sPlan[1].event, sPlan[1].trigger,
                                     sSnap[1], None)
                   ELSE timeline
    /\ sPc' = "snapshot"
    /\ UNCHANGED <<othersMon, state, pressure_event, pressure_reason,
                   monFlags, sSnap, sVramHard, sPlan, load_context,
                   last_snapshot, clock, samples, world, cPc, clears, clearedAt>>

\* a benchmark sweep calls resource_monitor.clear_pressure() (after every
\* combination, whatever the level)
ClearCall(t) ==
    /\ cPc[t] = "none"
    /\ clears < MaxClears
    /\ clears' = clears + 1
    /\ cPc' = [cPc EXCEPT ![t] = "event"]
    /\ UNCHANGED <<othersMon, monShared, monFlags, monLocal, load_context,
                   timeline, last_snapshot, clock, samples, world, clearedAt>>

\* clear_pressure: self.pressure_event.clear()
ClearPressureEvent(t) ==
    /\ cPc[t] = "event"
    /\ pressure_event' = FALSE
    /\ noStepdown' = FALSE
    /\ cPc' = [cPc EXCEPT ![t] = "reason"]
    /\ UNCHANGED <<ledVars, selVars, benchVars, svcLocals, state, pressure_reason, pressure_snapshot,
                   monFlags, monLocal, load_context, timeline, last_snapshot,
                   clock, samples, world, clears, clearedAt>>

\* clear_pressure: self.pressure_reason = ""
ClearPressureReason(t) ==
    /\ cPc[t] = "reason"
    /\ pressure_reason' = ""
    /\ cPc' = [cPc EXCEPT ![t] = "snapshot"]
    /\ UNCHANGED <<othersMon, state, pressure_event, pressure_snapshot,
                   monFlags, monLocal, load_context, timeline, last_snapshot,
                   clock, samples, world, clears, clearedAt>>

\* clear_pressure: self.pressure_snapshot = None
ClearPressureSnapshot(t) ==
    /\ cPc[t] = "snapshot"
    /\ pressure_snapshot' = None
    /\ cPc' = [cPc EXCEPT ![t] = "state"]
    /\ UNCHANGED <<othersMon, state, pressure_event, pressure_reason,
                   monFlags, monLocal, load_context, timeline, last_snapshot,
                   clock, samples, world, clears, clearedAt>>

\* clear_pressure: self.state = PressureLevel.OK, and the call returns
ClearPressureState(t) ==
    /\ cPc[t] = "state"
    /\ state' = "ok"
    /\ cPc' = [cPc EXCEPT ![t] = "none"]
    /\ clearedAt' = Some(clock)
    /\ UNCHANGED <<othersMon, pressure_event, pressure_reason, pressure_snapshot,
                   monFlags, monLocal, load_context, timeline, last_snapshot,
                   clock, samples, world, clears>>

\* the startup load ends: clear_load_context()
LoadEnd ==
    /\ ~IsNone(load_context)
    /\ load_context' = None
    /\ UNCHANGED <<othersMon, monShared, monFlags, monLocal, timeline,
                   last_snapshot, clock, samples, world, cPc, clears, clearedAt>>

\* the load contexts load_model() can have set when the sampler starts: the
\* 3.3B model in bf16 or in fp32, on a GPU that is already full
StartupLoads ==
    {Some(LoadContext(M33, MemMb(3300, p), Snapshot(Reading(8000, 8000, 0), 0))) :
        p \in {"bf16", "fp32"}}

\* lifespan(): the monitor is started, then load_model() runs in a worker
\* thread; the behaviours start with the sampler about to take a snapshot
\* and the startup load either running (its context set) or over
MonInit ==
    /\ GlobalsLoaded(M33)
    /\ LedgerIdle
    /\ BenchIdle
    /\ ServiceIdle
    /\ PollIdle
    /\ HealthIdle
    /\ state = "ok"
    /\ pressure_event = FALSE
    /\ pressure_reason = ""
    /\ pressure_snapshot = None
    /\ stepdown_active = FALSE
    /\ stepped_down_from = None
    /\ stepped_down_to = None
    /\ world = Readings
    /\ load_context \in {None} \cup StartupLoads
    /\ timeline = <<>>
    /\ last_snapshot = None
    /\ clock = 0
    /\ samples = 0
    /\ sPc = "snapshot"
    /\ sSnap = None
    /\ sVramHard = ""
    /\ sPlan = None
    /\ cPc = [t \in Threads |-> "none"]
    /\ clears = 0
    /\ clearedAt = None

MonNext ==
    \/ SSnapshot
    \/ SDispatchOK
    \/ SDispatchWARN
    \/ SDispatchVRAM_FULL
    \/ SWriteState
    \/ SSetEvent
    \/ SWriteReason
    \/ SWriteSnapshot
    \/ \E t \in Threads : ClearCall(t)
    \/ \E t \in Threads : ClearPressureEvent(t)
    \/ \E t \in Threads : ClearPressureReason(t)
    \/ \E t \in Threads : ClearPressureSnapshot(t)
    \/ \E t \in Threads : ClearPressureState(t)
    \/ LoadEnd

SpecMon == MonInit /\ [][MonNext]_vars

\* the transitions of the state table
StateTable ==
    { <<"ok", "warn">>,
      <<"warn", "critical">>, <<"warn", "vram_full">>, <<"warn", "ok">>,
      <<"vram_full", "critical">>, <<"vram_full", "warn">>, <<"vram_full", "ok">> }

\* C1: every assignment the sampler makes to the pressure level that changes
\* it is a transition of the state table; the sampler never takes the level
\* from OK to CRITICAL or VRAM_FULL.
C1_SamplerFollowsTable ==
    [][ (sPc = "state" /\ state' # state) => <<state, state'>> \in StateTable ]_vars

\* C2: when clear_pressure() returns, pressure_event is unset and the level is
\* OK; and after a clear has returned, the sampler raises the level to
\* CRITICAL, or sets pressure_event, only for a snapshot taken after that
\* return.
C2_ClearIsFinal ==
    [][ /\ \A t \in Threads :
              (cPc[t] = "state" /\ cPc'[t] = "none") =>
                  (~pressure_event' /\ state' = "ok")
        /\ ( /\ ~IsNone(clearedAt)
             /\ \/ (state' = "critical" /\ state # "critical")
                \/ (pressure_event' /\ ~pressure_event) )
           => sSnap[1].timestamp >= clearedAt[1]
      ]_vars

(***************************************************************************)
(*                 /translate and the stepdown controller                  *)
(***************************************************************************)

\* bound: number of /translate requests in one behaviour
MaxTranslate == 3

\* bound: the sampler iterations that run while the requests are served
MaxSvcSamples == 4

\* STEPDOWN_CHAIN: the next smaller model, None at the end of the chain
STEPDOWN_CHAIN ==
    [m \in ModelIds |-> IF m = M33 THEN Some(M13)
                        ELSE IF m = M13 THEN Some(M06)
                        ELSE None]

TranslateResponse(status, detail, warning) ==
    [status |-> status, detail |-> detail, warning |-> warning]

\* ResourceSnapshot.to_dict(), with the fields the ledger model keeps
to_dict(snap) ==
    [k \in {SnapshotKeys[i] : i \in DOMAIN SnapshotKeys} |-> snap[k]]

\* get_timeline_relative(ref_epoch): t_ms relative to ref_epoch, one tick
\* being one second
get_timeline_relative(tl, ref_epoch) ==
    [i \in DOMAIN tl |->
        [t_ms |-> (tl[i].t_epoch - ref_epoch) * 1000, event |-> tl[i].event,
         trigger |-> tl[i].trigger, extra |-> tl[i].extra]]

\* breached_limits of the warning
Breached(pressure_snap) ==
    IF IsNone(pressure_snap) THEN <<>>
    ELSE LET p == pressure_snap[1]
         IN  When(vram_total_mb > 0 /\ p.vram_free_mb < vram_hard_mb, "vram_hard")
             \o When(p.ram_available_mb < ram_hard_mb, "ram_hard")
             \o When(Max(0, p.swap_used_mb - swap_baseline_mb) > swap_hard_mb,
                     "swap_hard")

\* model.to(DEVICE) is needed after from_pretrained unless the model is
\* quantized or stays on the CPU
NeedsPlacement == PRECISION \notin {"int8", "int4"} /\ DEVICE # "cpu"

ledRest == <<hw_fingerprint, cacheLock, rfPc, rfArg>>
selRest == <<host, DEVICE, PRECISION, startPc, strongWarning>>
monRest == <<monLocal, samples, world, clears, clearedAt>>

\* a /translate request is dispatched to a worker thread
TStart(t) ==
    /\ tPc[t] \in {"idle", "done"}
    /\ cPc[t] = "none"
    /\ tReqs < MaxTranslate
    /\ tReqs' = tReqs + 1
    /\ tLate' = [tLate EXCEPT ![t] = noStepdown /\ pressure_event]
    /\ tPc' = [tPc EXCEPT ![t] = "loaded"]
    /\ tCur' = [tCur EXCEPT ![t] = ""]
    /\ tServed' = [tServed EXCEPT ![t] = None]
    /\ tSnap' = [tSnap EXCEPT ![t] = None]
    /\ tReason' = [tReason EXCEPT ![t] = ""]
    /\ tNext' = [tNext EXCEPT ![t] = None]
    /\ tNew' = [tNew EXCEPT ![t] = None]
    /\ tResp' = [tResp EXCEPT ![t] = None]
    /\ UNCHANGED <<ledVars, selVars, benchVars, monVars, noStepdown>>

\* if tokenizer is None or model is None: 503 "Model not loaded"
TCheckLoaded(t) ==
    /\ tPc[t] = "loaded"
    /\ IF IsNone(tokenizer) \/ IsNone(model)
       THEN /\ tResp' = [tResp EXCEPT ![t] =
                           Some(TranslateResponse(503, "Model not loaded", None))]
            /\ tPc' = [tPc EXCEPT ![t] = "done"]
       ELSE /\ tPc' = [tPc EXCEPT ![t] = "degraded"]
            /\ UNCHANGED tResp
    /\ UNCHANGED <<ledVars, selVars, benchVars, monVars, tCur, tServed, tSnap,
                   tReason, tNext, tNew, tReqs, tLate, noStepdown>>

\* if resource_monitor.stepdown_active and pressure_event.is_set():
\* 503 "Service degraded"
TCheckDegraded(t) ==
    /\ tPc[t] = "degraded"
    /\ IF stepdown_active /\ pressure_event
       THEN /\ tResp' = [tResp EXCEPT ![t] =
                           Some(TranslateResponse(503, "Service degraded", None))]
            /\ tPc' = [tPc EXCEPT ![t] = "done"]
       ELSE /\ tPc' = [tPc EXCEPT ![t] = "name"]
            /\ UNCHANGED tResp
    /\ UNCHANGED <<ledVars, selVars, benchVars, monVars, tCur, tServed, tSnap,
                   tReason, tNext, tNew, tReqs, tLate, noStepdown>>

\* current_model = MODEL_NAME
TReadName(t) ==
    /\ tPc[t] = "name"
    /\ tCur' = [tCur EXCEPT ![t] = MODEL_NAME]
    /\ tPc' = [tPc EXCEPT ![t] = "infer"]
    /\ UNCHANGED <<ledVars, selVars, benchVars, monVars, tServed, tSnap,
                   tReason, tNext, tNew, tResp, tReqs, tLate, noStepdown>>

\* resp = _translate_with_metrics(..., tokenizer, model, DEVICE): the globals
\* are read at the call; a None tokenizer or model, or a model not yet moved
\* to the device, raises and the handler answers 500
TInfer(t) ==
    /\ tPc[t] = "infer"
    /\ IF IsNone(tokenizer) \/ IsNone(model) \/ ~model[1].placed
       THEN /\ tResp' = [tResp EXCEPT ![t] =
                           Some(TranslateResponse(500, "Translation error", None))]
            /\ tPc' = [tPc EXCEPT ![t] = "done"]
            /\ UNCHANGED tServed
       ELSE /\ tServed' = [tServed EXCEPT ![t] = model]
            /\ tPc' = [tPc EXCEPT ![t] = "pressure"]
            /\ UNCHANGED tResp
    /\ UNCHANGED <<ledVars, selVars, benchVars, monVars, tCur, tSnap, tReason,
                   tNext, tNew, tReqs, tLate, noStepdown>>

\* if resource_monitor.pressure_event.is_set(): pressure_snap, pressure_reason
\* are captured and _perform_stepdown is called; else the plain response
TCheckPressure(t) ==
    /\ tPc[t] = "pressure"
    /\ IF pressure_event
       THEN /\ tSnap' = [tSnap EXCEPT ![t] = pressure_snapshot]
            /\ tReason' = [tReason EXCEPT ![t] = pressure_reason]
            /\ tPc' = [tPc EXCEPT ![t] = "sd_begin"]
            /\ UNCHANGED tResp
       ELSE /\ tResp' = [tResp EXCEPT ![t] = Some(TranslateResponse(200, "", None))]
            /\ tPc' = [tPc EXCEPT ![t] = "done"]
            /\ UNCHANGED <<tSnap, tReason>>
    /\ UNCHANGED <<ledVars, selVars, benchVars, monVars, tCur, tServed, tNext,
                   tNew, tReqs, tLate, noStepdown>>

\* _perform_stepdown's first lines with the no-successor return taken after
\* monitor.clear_pressure()'s event reset
SdBegin_ClearsEvent(t) ==
    /\ tPc[t] = "sd_begin"
    /\ tNext' = [tNext EXCEPT ![t] = STEPDOWN_CHAIN[tCur[t]]]
    /\ IF IsNone(STEPDOWN_CHAIN[tCur[t]])
       THEN /\ tPc' = [tPc EXCEPT ![t] = "respond"]
            /\ noStepdown' = pressure_event
            /\ pressure_event' = FALSE
       ELSE /\ tPc' = [tPc EXCEPT ![t] = "sd_record"]
            /\ UNCHANGED <<noStepdown, pressure_event>>
    /\ UNCHANGED <<ledVars, selVars, benchVars, state, pressure_reason,
                   pressure_snapshot, monFlags, monLocal, load_context, timeline,
                   last_snapshot, clock, samples, world, cPc, clears, clearedAt,
                   tCur, tServed, tSnap, tReason, tNew, tResp, tReqs, tLate>>

\* _perform_stepdown: next_model = STEPDOWN_CHAIN.get(current_model);
\* return None when there is none
SdBegin(t) ==
    /\ tPc[t] = "sd_begin"
    /\ tNext' = [tNext EXCEPT ![t] = STEPDOWN_CHAIN[tCur[t]]]
    /\ IF IsNone(STEPDOWN_CHAIN[tCur[t]])
       THEN /\ tPc' = [tPc EXCEPT ![t] = "respond"]
            /\ noStepdown' = pressure_event
       ELSE /\ tPc' = [tPc EXCEPT ![t] = "sd_record"]
            /\ UNCHANGED noStepdown
    /\ UNCHANGED <<ledVars, selVars, benchVars, monVars, tCur, tServed, tSnap,
                   tReason, tNew, tResp, tReqs, tLate>>

\* pressure_cache.record_failure(current_model, PRECISION, DEVICE,
\* monitor.pressure_reason, snapshot=...), on a disk that takes the write
SdRecord(t) ==
    /\ tPc[t] = "sd_record"
    /\ failures' = RecordFailureList(failures, tCur[t], PRECISION, DEVICE,
                      pressure_reason,
                      IF IsNone(pressure_snapshot) THEN None
                      ELSE Some(to_dict(pressure_snapshot[1])),
                      ledClock)
    /\ ledClock' = ledClock + 1
    /\ ledLoad' = [ledLoad EXCEPT !.records = @ + 1, !.sequential = failures']
    /\ file' = SaveData(hw_fingerprint, failures')
    /\ tPc' = [tPc EXCEPT ![t] = "sd_unload"]
    /\ UNCHANGED <<ledRest, selVars, benchVars, monVars, tCur, tServed, tSnap,
                   tReason, tNext, tNew, tResp, tReqs, tLate, noStepdown>>

\* _unload_model(): model = None; tokenizer = None
SdUnload(t) ==
    /\ tPc[t] = "sd_unload"
    /\ model' = None
    /\ tokenizer' = None
    /\ tPc' = [tPc EXCEPT ![t] = "sd_context"]
    /\ UNCHANGED <<ledVars, selRest, MODEL_NAME, benchVars, monVars, tCur,
                   tServed, tSnap, tReason, tNext, tNew, tResp, tReqs, tLate, noStepdown>>

\* monitor.set_load_context(next_model, PRECISION, DEVICE, est_mb)
SdSetLoadContext(t) ==
    /\ tPc[t] = "sd_context"
    /\ \E r \in world :
          /\ last_snapshot' = Some(Snapshot(r, clock))
          /\ load_context' = Some(LoadContext(tNext[t][1],
                MemMb(NLLB_SPECS[CHOOSE i \in DOMAIN NLLB_SPECS :
                         NLLB_SPECS[i].model_id = tNext[t][1]].params_m, PRECISION),
                Snapshot(r, clock)))
    /\ clock' = clock + 1
    /\ tPc' = [tPc EXCEPT ![t] = "sd_tokenizer"]
    /\ UNCHANGED <<ledVars, selVars, benchVars, monShared, monFlags, monRest,
                   timeline, cPc, tCur, tServed, tSnap, tReason, tNext, tNew,
                   tResp, tReqs, tLate, noStepdown>>

\* tokenizer = _from_pretrained(AutoTokenizer, next_model); an exception
\* clears the load context and makes _perform_stepdown return None
SdLoadTokenizer(t) ==
    /\ tPc[t] = "sd_tokenizer"
    /\ \/ /\ tokenizer' = Some(tNext[t][1])
          /\ tPc' = [tPc EXCEPT ![t] = "sd_model"]
          /\ UNCHANGED load_context
       \/ /\ load_context' = None
          /\ tPc' = [tPc EXCEPT ![t] = "respond"]
          /\ UNCHANGED tokenizer
    /\ UNCHANGED <<ledVars, selRest, MODEL_NAME, model, benchVars, monShared,
                   monFlags, monRest, timeline, last_snapshot, clock, cPc, tCur,
                   tServed, tSnap, tReason, tNext, tNew, tResp, tReqs, tLate, noStepdown>>

\* model = _from_pretrained(AutoModelForSeq2SeqLM, next_model, **load_kwargs),
\* then clear_load_context(); an exception makes _perform_stepdown return None
SdLoadModel(t) ==
    /\ tPc[t] = "sd_model"
    /\ load_context' = None
    /\ \/ /\ model' = Some([model_id |-> tNext[t][1], precision |-> PRECISION,
                            device |-> DEVICE, placed |-> ~NeedsPlacement])
          /\ tPc' = [tPc EXCEPT ![t] = "sd_place"]
       \/ /\ tPc' = [tPc EXCEPT ![t] = "respond"]
          /\ UNCHANGED model
    /\ UNCHANGED <<ledVars, selRest, MODEL_NAME, tokenizer, benchVars, monShared,
                   monFlags, monRest, timeline, last_snapshot, clock, cPc, tCur,
                   tServed, tSnap, tReason, tNext, tNew, tResp, tReqs, tLate, noStepdown>>

\* model = model.to(DEVICE); model.eval(): the global is read again, and a
\* None (another thread unloaded it) raises AttributeError -> return None;
\* where the model has to be moved, the move can raise (the device is out of
\* memory) and leaves the global holding the model as from_pretrained made it
SdPlace(t) ==
    /\ tPc[t] = "sd_place"
    /\ IF IsNone(model)
       THEN /\ tPc' = [tPc EXCEPT ![t] = "respond"]
            /\ UNCHANGED model
       ELSE \/ /\ model' = Some([model[1] EXCEPT !.placed = TRUE])
               /\ tPc' = [tPc EXCEPT ![t] = "sd_flags"]
            \/ /\ NeedsPlacement
               /\ tPc' = [tPc EXCEPT ![t] = "respond"]
               /\ UNCHANGED model
    /\ UNCHANGED <<ledVars, selRest, MODEL_NAME, tokenizer, benchVars, monVars,
                   tCur, tServed, tSnap, tReason, tNext, tNew, tResp, tReqs, tLate,
                   noStepdown>>

\* monitor.stepdown_active = True; stepped_down_from / stepped_down_to; then
\* monitor.clear_pressure() is entered
SdFlags(t) ==
    /\ tPc[t] = "sd_flags"
    /\ stepdown_active' = TRUE
    /\ stepped_down_from' = Some(tCur[t])
    /\ stepped_down_to' = tNext[t]
    /\ cPc' = [cPc EXCEPT ![t] = "event"]
    /\ tPc' = [tPc EXCEPT ![t] = "sd_timeline"]
    /\ UNCHANGED <<ledVars, selVars, benchVars, monShared, monRest, load_context,
                   timeline, last_snapshot, clock, tCur, tServed, tSnap, tReason,
                   tNext, tNew, tResp, tReqs, tLate, noStepdown>>

\* after clear_pressure() has returned: snap = monitor.snapshot();
\* monitor._add_timeline("stepdown", ...)
SdTimeline(t) ==
    /\ tPc[t] = "sd_timeline"
    /\ cPc[t] = "none"
    /\ \E r \in world :
          /\ last_snapshot' = Some(Snapshot(r, clock))
          /\ timeline' = add_timeline(timeline, "stepdown", "loaded",
                            Snapshot(r, clock),
                            Some([from |-> tCur[t], to |-> tNext[t][1]]))
    /\ clock' = clock + 1
    /\ tPc' = [tPc EXCEPT ![t] = "sd_name"]
    /\ UNCHANGED <<ledVars, selVars, benchVars, monShared, monFlags, monRest,
                   load_context, cPc, tCur, tServed, tSnap, tReason, tNext, tNew,
                   tResp, tReqs, tLate, noStepdown>>

\* MODEL_NAME = next_model; return next_model
SdSetName(t) ==
    /\ tPc[t] = "sd_name"
    /\ MODEL_NAME' = tNext[t][1]
    /\ tNew' = [tNew EXCEPT ![t] = tNext[t]]
    /\ tPc' = [tPc EXCEPT ![t] = "respond"]
    /\ UNCHANGED <<ledVars, selRest, tokenizer, model, benchVars, monVars, tCur,
                   tServed, tSnap, tReason, tNext, tResp, tReqs, tLate, noStepdown>>

\* back in translate: the warning is built and the response returned
TRespond(t) ==
    /\ tPc[t] = "respond"
    /\ LET critical_epoch == IF IsNone(tSnap[t]) THEN clock
                             ELSE tSnap[t][1].timestamp
           warning ==
             [type |-> "memory_pressure_stepdown",
              attempted_model |-> tCur[t],
              active_model |-> IF IsNone(tNew[t]) THEN tCur[t] ELSE tNew[t][1],
              reason |-> tReason[t],
              breached_limits |-> Breached(tSnap[t]),
              timeline |-> get_timeline_relative(timeline, critical_epoch)]
       IN  tResp' = [tResp EXCEPT ![t] = Some(TranslateResponse(200, "", Some(warning)))]
    /\ tPc' = [tPc EXCEPT ![t] = "done"]
    /\ UNCHANGED <<ledVars, selVars, benchVars, monVars, tCur, tServed, tSnap,
                   tReason, tNext, tNew, tReqs, tLate, noStepdown>>

\* one whole iteration of _poll_loop, taken as a single step: the snapshot,
\* the branch for the level found, and all the writes of that branch
SampleOnce ==
    /\ sPc = "snapshot"
    /\ samples < MaxSvcSamples
    /\ samples' = samples + 1
    /\ clock' = clock + 1
    /\ \E r \in world :
         LET snap == Snapshot(r, clock)
             vram_hard_reason == check_vram_hard(snap)
             plan == IF state = "ok" THEN BranchOK(snap, load_context)
                     ELSE IF state = "warn"
                     THEN BranchWARN(snap, load_context, vram_hard_reason)
                     ELSE IF state = "vram_full"
                     THEN BranchVRAM_FULL(snap, load_context, vram_hard_reason)
                     ELSE BranchCRITICAL(snap, load_context)
         IN  /\ sSnap' = Some(snap)
             /\ last_snapshot' = Some(snap)
             /\ sVramHard' = vram_hard_reason
             /\ sPlan' = Some(plan)
             /\ state' = IF plan.target # "" THEN plan.target ELSE state
             /\ pressure_event' = (pressure_event \/ plan.target = "critical")
             /\ pressure_reason' = IF plan.reason # "" THEN plan.reason
                                   ELSE pressure_reason
             /\ pressure_snapshot' = IF plan.reason # "" THEN Some(snap)
                                     ELSE pressure_snapshot
             /\ timeline' = IF plan.event # ""
                            THEN add_timeline(timeline, plan.event, plan.trigger,
                                              snap, None)
                            ELSE timeline
    /\ UNCHANGED <<othersMon, monFlags, sPc, load_context, world, cPc, clears,
                   clearedAt>>

\* the models the service is started with
SvcModels == {M33, M06}

\* a started server on a host whose RAM is below the hard limit: the startup
\* load is over, the sampler is about to take a snapshot
SvcInit ==
    /\ \E m \in SvcModels : GlobalsLoaded(m)
    /\ LedgerIdle
    /\ BenchIdle
    /\ ServiceIdle
    /\ PollIdle
    /\ HealthIdle
    /\ state = "ok"
    /\ pressure_event = FALSE
    /\ pressure_reason = ""
    /\ pressure_snapshot = None
    /\ stepdown_active = FALSE
    /\ stepped_down_from = None
    /\ stepped_down_to = None
    /\ world = {Reading(1000, 500, 0)}
    /\ load_context = None
    /\ timeline = <<>>
    /\ last_snapshot = None
    /\ clock = 0
    /\ samples = 0
    /\ sPc = "snapshot"
    /\ sSnap = None
    /\ sVramHard = ""
    /\ sPlan = None
    /\ cPc = [t \in Threads |-> "none"]
    /\ clears = 0
    /\ clearedAt = None

SvcNext ==
    \/ SampleOnce
    \/ \E t \in Threads : ClearPressureEvent(t)
    \/ \E t \in Threads : ClearPressureReason(t)
    \/ \E t \in Threads : ClearPressureSnapshot(t)
    \/ \E t \in Threads : ClearPressureState(t)
    \/ \E t \in Threads : TStart(t)
    \/ \E t \in Threads : TCheckLoaded(t)
    \/ \E t \in Threads : TCheckDegraded(t)
    \/ \E t \in Threads : TReadName(t)
    \/ \E t \in Threads : TInfer(t)
    \/ \E t \in Threads : TCheckPressure(t)
    \/ \E t \in Threads : SdBegin(t)
    \/ \E t \in Threads : SdRecord(t)
    \/ \E t \in Threads : SdUnload(t)
    \/ \E t \in Threads : SdSetLoadContext(t)
    \/ \E t \in Threads : SdLoadTokenizer(t)
    \/ \E t \in Threads : SdLoadModel(t)
    \/ \E t \in Threads : SdPlace(t)
    \/ \E t \in Threads : SdFlags(t)
    \/ \E t \in Threads : SdTimeline(t)
    \/ \E t \in Threads : SdSetName(t)
    \/ \E t \in Threads : TRespond(t)

SpecSvc == SvcInit /\ [][SvcNext]_vars

\* C3: once the stepdown controller has answered "no further stepdown"
\* (the model it was given has no successor), a translate request that
\* arrives while the pressure event is still set is refused with 503: as
\* long as the event stays set it does not get past the degraded check, and
\* if it has completed, it completed with status 503.
C3_ExhaustedChainRefuses ==
    \A t \in Threads :
        (tLate[t] /\ noStepdown /\ pressure_event) =>
            /\ tPc[t] \in {"loaded", "degraded", "done"}
            /\ tPc[t] = "done" => tResp[t][1].status = 503

\* C4: a translate request whose stepdown loaded the successor returns 200
\* with a warning whose attempted_model is the model its inference ran on and
\* whose active_model is MODEL_NAME at the moment the response is returned.
C4_WarningNamesModels ==
    [][ \A t \in Threads :
          ( /\ tPc[t] = "respond"
            /\ tPc'[t] = "done"
            /\ ~IsNone(tNew[t])
            /\ ~IsNone(STEPDOWN_CHAIN[tServed[t][1].model_id]) )
          => /\ tResp'[t][1].status = 200
             /\ ~IsNone(tResp'[t][1].warning)
             /\ tResp'[t][1].warning[1].attempted_model = tServed[t][1].model_id
             /\ tResp'[t][1].warning[1].active_model = MODEL_NAME'
      ]_vars

\* C12: at the step where _perform_stepdown(M) returns the successor N,
\* stepdown_active is true, stepped_down_from = M, stepped_down_to = N,
\* MODEL_NAME is N, the handler's clear_pressure() has run to its end, and the
\* timeline holds a "stepdown" event with from = M and to = N.
C12_StepdownPostcondition ==
    [][ \A t \in Threads :
          (tPc[t] = "sd_name" /\ tPc'[t] = "respond") =>
             /\ stepdown_active'
             /\ stepped_down_from' = Some(tCur[t])
             /\ stepped_down_to' = tNext[t]
             /\ MODEL_NAME' = tNext[t][1]
             /\ cPc'[t] = "none"
             /\ ~IsNone(clearedAt')
             /\ \E i \in DOMAIN timeline' :
                   /\ timeline'[i].event = "stepdown"
                   /\ timeline'[i].extra = Some([from |-> tCur[t], to |-> tNext[t][1]])
      ]_vars

\* C13: a translate handler that got past the loaded check makes its inference
\* call with a tokenizer and a model that are both present, belong to the same
\* model id, and the model is on its device; it never makes the call with a
\* None or mismatched pair.
C13_InferenceOnWholeTranslator ==
    [][ \A t \in Threads :
          (tPc[t] = "infer" /\ tPc'[t] # "infer") =>
             /\ ~IsNone(tokenizer)
             /\ ~IsNone(model)
             /\ model[1].placed
             /\ tokenizer[1] = model[1].model_id
      ]_vars

\* the positions of a handler inside _perform_stepdown past the chain lookup:
\* ledger record, unload, load, flags, clear, timeline, name
InStepdown(t) ==
    tPc[t] \in {"sd_record", "sd_unload", "sd_context", "sd_tokenizer", "sd_model",
                "sd_place", "sd_flags", "sd_timeline", "sd_name"}

\* C14: at most one stepdown executes at a time: no two translate handlers are
\* inside the stepdown controller (ledger record, unload, load) together.
C14_OneStepdownAtATime ==
    \A t, u \in Threads : (InStepdown(t) /\ InStepdown(u)) => t = u

\* a RAM/swap hard condition of a snapshot: RAM available below hard, swap
\* delta above hard, process swap above 0, or a load predicted to exhaust RAM
\* while RAM is below soft
HardRamSwap(snap, ctx) ==
    \/ snap.ram_available_mb < ram_hard_mb
    \/ Max(0, snap.swap_used_mb - swap_baseline_mb) > swap_hard_mb
    \/ snap.process_swap_mb > 0
    \/ (~WillRamSurvive(ctx, snap) /\ snap.ram_available_mb < ram_soft_mb)

\* C15: a VRAM hard breach alone never fires the kill line: the sampler
\* decides for CRITICAL only in an iteration whose snapshot shows a RAM/swap
\* hard condition, whatever its VRAM values; the level is raised to CRITICAL
\* and pressure_event is set only by carrying out such a decision.
C15_VramAloneNeverCritical ==
    [][ /\ (sPc \in {"if_warn", "if_vram_full"} /\ sPc' = "state"
              /\ sPlan'[1].target = "critical")
           => HardRamSwap(sSnap[1], load_context)
        /\ (state' = "critical" /\ state # "critical")
           => (sPc = "state" /\ sPlan[1].target = "critical")
        /\ (pressure_event' /\ ~pressure_event) => sPc = "event"
      ]_vars

\* the sampler has seen a VRAM hard breach with RAM above the soft limit at
\* level VRAM_FULL and ended the iteration without raising the level or
\* setting the event
C15_Witness ==
    /\ state = "vram_full"
    /\ ~pressure_event
    /\ sPc = "snapshot"
    /\ ~IsNone(sPlan)
    /\ sPlan[1].target = ""
    /\ sVramHard # ""
    /\ sSnap[1].ram_available_mb >= ram_soft_mb

\* C16: once the level is CRITICAL the sampler never lowers it: the level
\* leaves CRITICAL only by the last assignment of clear_pressure(), and
\* pressure_event is unset only by the first statement of clear_pressure();
\* no sampler step does either, whatever its snapshot shows.
C16_CriticalUntilCleared ==
    [][ /\ (state = "critical" /\ state' # "critical")
           => \E t \in Threads : cPc[t] = "state" /\ cPc'[t] = "none"
        /\ (pressure_event /\ ~pressure_event')
           => \E t \in Threads : cPc[t] = "event" /\ cPc'[t] = "reason"
      ]_vars

\* with no clear_pressure() call made, the sampler has completed an iteration
\* at level CRITICAL whose snapshot shows every hard and soft condition
\* cleared, and the level is CRITICAL with the event set
C16_Witness ==
    /\ state = "critical"
    /\ pressure_event
    /\ clears = 0
    /\ sPc = "snapshot"
    /\ sPlan = Some(Plan("", "", "", ""))
    /\ check_hard_conditions(sSnap[1], load_context) = ""
    /\ check_arm_conditions(sSnap[1], load_context) = ""
    /\ sVramHard = ""

(***************************************************************************)
(*                     _benchmark_cache_key (pure function)                *)
(***************************************************************************)

\* bound: the longest sentences list of a request
MaxSentences == 2

\* the strings of the requests, in the order Python's sorted() puts them
\* (code point order)
StrOrder == <<"1.3B", "600M", "Hello", "World", "cuda">>
Rank(x) == CHOOSE i \in DOMAIN StrOrder : StrOrder[i] = x

\* sorted(list): insertion into the sorted rest
RECURSIVE Insert(_, _)
Insert(x, sorted) ==
    IF sorted = <<>> THEN <<x>>
    ELSE IF Rank(x) <= Rank(Head(sorted)) THEN <<x>> \o sorted
    ELSE <<Head(sorted)>> \o Insert(x, Tail(sorted))
RECURSIVE Sorted(_)
Sorted(list) ==
    IF list = <<>> THEN <<>> ELSE Insert(Head(list), Sorted(Tail(list)))

\* "sorted(x) if x else None": None and the empty list both give None (null)
SortedOrNone(x) ==
    IF IsNone(x) \/ x[1] = <<>> THEN None ELSE Some(Sorted(x[1]))

\* (mutant) the sentences enter the key in the order of the request
benchmark_cache_key_Unsorted(hw, req) ==
    [filter_devices |-> SortedOrNone(req.filter_devices),
     filter_params |-> SortedOrNone(req.filter_params),
     filter_precisions |-> SortedOrNone(req.filter_precisions),
     hw |-> hw,
     sentences |-> req.sentences,
     source |-> req.source_lang,
     target |-> req.target_lang]

\* _benchmark_cache_key: the JSON object (keys sorted) whose text is hashed;
\* sha256 is taken to be free of collisions, so the key is the object itself
benchmark_cache_key(hw, req) ==
    [filter_devices |-> SortedOrNone(req.filter_devices),
     filter_params |-> SortedOrNone(req.filter_params),
     filter_precisions |-> SortedOrNone(req.filter_precisions),
     hw |-> hw,
     sentences |-> Sorted(req.sentences),
     source |-> req.source_lang,
     target |-> req.target_lang]

\* the lists of length 0 .. n over the strings of S
RECURSIVE ListsUpTo(_, _)
ListsUpTo(S, n) ==
    IF n = 0 THEN {<<>>}
    ELSE LET shorter == ListsUpTo(S, n - 1)
         IN  shorter \cup {<<x>> \o l : x \in S, l \in {m \in shorter : Len(m) = n - 1}}

\* the BenchmarkRequest bodies the key is computed for
KeyRequests ==
    { [sentences |-> se, source_lang |-> so, target_lang |-> ta,
       filter_params |-> fp, filter_precisions |-> None, filter_devices |-> fd] :
        se \in ListsUpTo({"Hello", "World"}, MaxSentences),
        so \in {"eng_Latn", "fra_Latn"},
        ta \in {"deu_Latn", "eng_Latn"},
        fp \in {None, Some(<<>>), Some(<<"600M">>), Some(<<"600M", "1.3B">>),
                Some(<<"1.3B", "600M">>)},
        fd \in {None, Some(<<"cuda">>)} }

\* two /benchmark requests have arrived on one host
KeyInit ==
    /\ GlobalsLoaded(M33)
    /\ LedgerIdle
    /\ MonitorIdle
    /\ ServiceIdle
    /\ PollIdle
    /\ HealthIdle
    /\ benchLock = None
    /\ benchFuture = 0
    /\ futures = <<>>
    /\ benchCache = [k \in BenchKeys |-> None]
    /\ bPc = [h \in BenchClients |-> "idle"]
    /\ bKey = [h \in BenchClients |-> "K1"]
    /\ bFut = [h \in BenchClients |-> 0]
    /\ bSeen = [h \in BenchClients |-> None]
    /\ bResp = [h \in BenchClients |-> None]
    /\ sweeps = 0
    /\ bReqs = 0
    /\ kReq \in [BenchClients -> {Some(r) : r \in KeyRequests}]
    /\ kKey = [c \in BenchClients |-> None]

\* hw_fp = build_hw_fingerprint(); cache_key = _benchmark_cache_key(hw_fp, req)
KeyCompute(c) ==
    /\ IsNone(kKey[c])
    /\ kKey' = [kKey EXCEPT ![c] = Some(benchmark_cache_key(hw_fingerprint, kReq[c][1]))]
    /\ UNCHANGED <<othersBench, benchCore, kReq>>

KeyNext == \E c \in BenchClients : KeyCompute(c)

SpecKey == KeyInit /\ [][KeyNext]_vars

\* a list as a multiset: how often each string occurs
BagOfList(list) ==
    [x \in {list[i] : i \in DOMAIN list} |->
        Cardinality({i \in DOMAIN list : list[i] = x})]

\* a filter field as the client sent it: absent, or a multiset
FilterAsSent(x) == IF IsNone(x) THEN None ELSE Some(BagOfList(x[1]))
\* a filter field as a set, absent being no set at all
FilterSetAsSent(x) == IF IsNone(x) THEN None ELSE Some({x[1][i] : i \in DOMAIN x[1]})
\* a filter field with an absent filter and an empty list taken as the same
FilterInForce(x) == IF IsNone(x) THEN BagOfList(<<>>) ELSE BagOfList(x[1])

BothKeyed == \A c \in BenchClients : ~IsNone(kKey[c])

\* C19 as stated: two requests on one host with equal languages, sentences
\* lists equal as multisets and each filter list equal as multisets have the
\* same key; the keys differ when a language, the sentence multiset or a
\* filter set differs (an absent filter and an empty list being different).
C19_KeyAsStated ==
    BothKeyed =>
        LET r == kReq["a"][1]
            q == kReq["b"][1]
        IN  /\ ( /\ r.source_lang = q.source_lang
                 /\ r.target_lang = q.target_lang
                 /\ BagOfList(r.sentences) = BagOfList(q.sentences)
                 /\ FilterAsSent(r.filter_params) = FilterAsSent(q.filter_params)
                 /\ FilterAsSent(r.filter_precisions) = FilterAsSent(q.filter_precisions)
                 /\ FilterAsSent(r.filter_devices) = FilterAsSent(q.filter_devices) )
               => kKey["a"] = kKey["b"]
            /\ ( \/ r.source_lang # q.source_lang
                 \/ r.target_lang # q.target_lang
                 \/ BagOfList(r.sentences) # BagOfList(q.sentences)
                 \/ FilterSetAsSent(r.filter_params) # FilterSetAsSent(q.filter_params)
                 \/ FilterSetAsSent(r.filter_precisions)
                       # FilterSetAsSent(q.filter_precisions)
                 \/ FilterSetAsSent(r.filter_devices) # FilterSetAsSent(q.filter_devices) )
               => kKey["a"] # kKey["b"]

\* C19 (amended): two requests on one host have the same key exactly when
\* their languages are equal, their sentences lists are equal as multisets and
\* each filter is equal as a multiset, an absent filter and an empty filter
\* list counting as the same filter.
C19_KeyUpToOrder ==
    BothKeyed =>
        LET r == kReq["a"][1]
            q == kReq["b"][1]
        IN  kKey["a"] = kKey["b"] <=>
              /\ r.source_lang = q.source_lang
              /\ r.target_lang = q.target_lang
              /\ BagOfList(r.sentences) = BagOfList(q.sentences)
              /\ FilterInForce(r.filter_params) = FilterInForce(q.filter_params)
              /\ FilterInForce(r.filter_precisions) = FilterInForce(q.filter_precisions)
              /\ FilterInForce(r.filter_devices) = FilterInForce(q.filter_devices)

\* the two requests list the same two sentences and the same two sizes in
\* opposite orders, and their keys are equal
C19_Witness ==
    /\ BothKeyed
    /\ kReq["a"][1].sentences = <<"World", "Hello">>
    /\ kReq["b"][1].sentences = <<"Hello", "World">>
    /\ kReq["a"][1].filter_params = Some(<<"600M", "1.3B">>)
    /\ kReq["b"][1].filter_params = Some(<<"1.3B", "600M">>)
    /\ kKey["a"] = kKey["b"]

(***************************************************************************)
(*      The sampler's loop, stop(), and the loads that set a LoadContext    *)
(***************************************************************************)

\* bound: iterations of the sampler's loop
MaxPolls == 3
\* bound: model loads started
MaxLoads == 2

\* normal_interval_s and fast_interval_s, in ticks of a quarter of a second
\* (in this part one tick of the clock is 0.25 s)
normal_interval == 20
fast_interval == 1

\* SubsystemVelocity.update, with alpha = 0.3; rates in hundredths of MB/s
velocity_update(v, free_mb, now) ==
    IF ~IsNone(v.prev_free_mb) /\ ~IsNone(v.prev_time) /\ now - v.prev_time[1] > 0
    THEN LET dt == now - v.prev_time[1]
             delta_per_s == ((free_mb - v.prev_free_mb[1]) * 400) \div dt
         IN  [prev_free_mb |-> Some(free_mb), prev_time |-> Some(now),
              ewma_delta_per_s |->
                  (3 * delta_per_s + 7 * v.ewma_delta_per_s) \div 10]
    ELSE [v EXCEPT !.prev_free_mb = Some(free_mb), !.prev_time = Some(now)]

\* round(SubsystemVelocity.time_to_full_s(current_free_mb), 1), in tenths of
\* a second; None when the drain is below 0.1 MB/s
time_to_full_s(v, current_free_mb) ==
    IF v.ewma_delta_per_s >= -10 THEN None
    ELSE Some(RoundDiv(current_free_mb * 1000, -v.ewma_delta_per_s))

\* snapshot() with the velocity trackers: vv and rv are the trackers after
\* their update
snapshot_with_velocity(r, now, vv, rv) ==
    [Snapshot(r, now) EXCEPT
        !.vram_ttf_s = time_to_full_s(vv, Snapshot(r, now).vram_free_mb),
        !.ram_ttf_s = time_to_full_s(rv, Snapshot(r, now).ram_available_mb)]

\* interval = self.normal_interval_s in the OK branch, self.fast_interval_s
\* in every other branch
IntervalOf(branch) == IF branch = "ok" THEN "normal" ELSE "fast"

Ticks(i) == IF i = "normal" THEN normal_interval ELSE fast_interval

\* the readings of the host the loop is checked on
PollReadings == {
    Reading(1000, 30000, 0),    \* everything far above the limits
    Reading(1000, 8000, 0),     \* above the soft limits
    Reading(1000, 1000, 0),     \* RAM below soft and exactly at hard
    Reading(1000, 500, 0),      \* RAM below hard
    Reading(8000, 8000, 0),     \* VRAM below hard, RAM fine
    Reading(1000, 8000, 5) }    \* this process swapped, RAM fine

\* the body of one iteration of _poll_loop on reading r, from snapshot() to
\* the assignment of interval
PollOn(r) ==
    LET vv == velocity_update(vram_velocity, Snapshot(r, clock).vram_free_mb, clock)
        rv == velocity_update(ram_velocity, Snapshot(r, clock).ram_available_mb, clock)
        snap == snapshot_with_velocity(r, clock, vv, rv)
        vram_hard_reason == check_vram_hard(snap)
        plan == IF state = "ok" THEN BranchOK(snap, load_context)
                ELSE IF state = "warn"
                THEN BranchWARN(snap, load_context, vram_hard_reason)
                ELSE IF state = "vram_full"
                THEN BranchVRAM_FULL(snap, load_context, vram_hard_reason)
                ELSE BranchCRITICAL(snap, load_context)
    IN  /\ samples' = samples + 1
        /\ afterStop' = IF stop_event THEN afterStop + 1 ELSE afterStop
        /\ vram_velocity' = vv
        /\ ram_velocity' = rv
        /\ sSnap' = Some(snap)
        /\ last_snapshot' = Some(snap)
        /\ sVramHard' = vram_hard_reason
        /\ sPlan' = Some(plan)
        /\ sFrom' = state
        /\ sCtx' = load_context
        /\ state' = IF plan.target # "" THEN plan.target ELSE state
        /\ pressure_event' = (pressure_event \/ plan.target = "critical")
        /\ pressure_reason' = IF plan.reason # "" THEN plan.reason
                              ELSE pressure_reason
        /\ pressure_snapshot' = IF plan.reason # "" THEN Some(snap)
                                ELSE pressure_snapshot
        /\ timeline' = IF plan.event # ""
                       THEN add_timeline(timeline, plan.event, plan.trigger,
                                         snap, None)
                       ELSE timeline
        /\ interval' = IntervalOf(state)
        /\ UNCHANGED <<ledVars, selVars, benchCore, keyVars, healthVars, svcVars,
                       monFlags, sPc, load_context, world, cPc, clears,
                       clearedAt, stop_event, stopAt, lPc, lModel, loads, snapCalls,
                       sweep>>

\* what the steps of the loop other than its body leave alone
loopRest == <<ledVars, selVars, benchCore, keyVars, healthVars, svcVars, monShared,
              monFlags, monLocal, load_context, timeline, last_snapshot, samples,
              world, cPc, clears, clearedAt, vram_velocity, ram_velocity, sFrom,
              sCtx, lPc, lModel, loads, snapCalls, sweep>>

\* while not self._stop_event.is_set():
PollCheck ==
    /\ pPc = "check"
    /\ stop_event \/ samples < MaxPolls
    /\ pPc' = IF stop_event THEN "exited" ELSE "iterate"
    /\ UNCHANGED <<loopRest, clock, stop_event, stopAt, afterStop, interval, timer>>

\* the body of the loop; self._stop_event.wait(interval) is entered
PollIterate ==
    /\ pPc = "iterate"
    /\ \E r \in world : PollOn(r)
    /\ pPc' = "wait"
    /\ timer' = FALSE
    /\ UNCHANGED clock

\* time passes: the interval of the wait in progress runs out
IntervalElapses ==
    /\ pPc = "wait"
    /\ ~timer
    /\ timer' = TRUE
    /\ clock' = clock + Ticks(interval)
    /\ UNCHANGED <<loopRest, pPc, stop_event, stopAt, afterStop, interval>>

\* (mutant) the wait is a sleep: only the end of the interval ends it
PollWake_Sleeps ==
    /\ pPc = "wait"
    /\ timer
    /\ pPc' = "check"
    /\ UNCHANGED <<loopRest, clock, stop_event, stopAt, afterStop, interval, timer>>

\* self._stop_event.wait(interval) returns: the interval has run out or the
\* event is set
PollWake ==
    /\ pPc = "wait"
    /\ timer \/ stop_event
    /\ pPc' = "check"
    /\ UNCHANGED <<loopRest, clock, stop_event, stopAt, afterStop, interval, timer>>

\* stop(): self._stop_event.set(); the join that follows waits at most 2 s
\* and changes nothing
Stop ==
    /\ ~stop_event
    /\ stop_event' = TRUE
    /\ stopAt' = pPc
    /\ UNCHANGED <<loopRest, clock, pPc, afterStop, interval, timer>>

\* estimated_mb = _mem_mb(spec["params_m"], precision) if spec else 0
EstimatedMb(model_id, precision) ==
    LET known == {i \in DOMAIN NLLB_SPECS : NLLB_SPECS[i].model_id = model_id}
    IN  IF known = {} THEN 0
        ELSE MemMb(NLLB_SPECS[CHOOSE i \in known : TRUE].params_m, precision)

\* "if estimated_mb > 0: set_load_context(...)": set_load_context takes a
\* snapshot (which moves the velocity trackers) and stores the LoadContext
SetLoadContext(model_id, estimated_total_mb) ==
    IF estimated_total_mb > 0
    THEN \E r \in world :
           LET vv == velocity_update(vram_velocity,
                                     Snapshot(r, clock).vram_free_mb, clock)
               rv == velocity_update(ram_velocity,
                                     Snapshot(r, clock).ram_available_mb, clock)
               snap == snapshot_with_velocity(r, clock, vv, rv)
           IN  /\ load_context' = Some(LoadContext(model_id, estimated_total_mb, snap))
               /\ last_snapshot' = Some(snap)
               /\ vram_velocity' = vv
               /\ ram_velocity' = rv
    ELSE UNCHANGED <<load_context, last_snapshot, vram_velocity, ram_velocity>>

\* what the loads leave alone in the loop and in the other parts
loadRest == <<benchCore, keyVars, svcVars, monLocal, samples, world, cPc, clears,
              clearedAt, clock, stop_event, pPc, interval, timer, sFrom, sCtx, stopAt,
              afterStop, NLLB_API_KEY, hPc, hReq, hReady, hResp, hw_fingerprint,
              cacheLock, rfPc, rfArg, host, DEVICE, PRECISION, startPc,
              strongWarning,
              snapCalls, sweep>>

\* load_model() up to the model's from_pretrained: the tokenizer is loaded
\* (or raises, and load_model with it), the load context is set
StartupLoadBegin ==
    /\ lPc["startup"] = "idle"
    /\ loads < MaxLoads
    /\ loads' = loads + 1
    /\ lModel' = [lModel EXCEPT !["startup"] = MODEL_NAME]
    /\ \/ /\ tokenizer' = Some(MODEL_NAME)
          /\ startup_status' = [startup_status EXCEPT !.phase = "downloading_model",
                                                      !.detail = MODEL_NAME]
          /\ SetLoadContext(MODEL_NAME, EstimatedMb(MODEL_NAME, PRECISION))
          /\ lPc' = [lPc EXCEPT !["startup"] = "loading"]
       \/ /\ startup_status' = [startup_status EXCEPT !.phase = "downloading_tokenizer",
                                                      !.detail = MODEL_NAME]
          /\ lPc' = [lPc EXCEPT !["startup"] = "raised"]
          /\ UNCHANGED <<tokenizer, load_context, last_snapshot, vram_velocity,
                         ram_velocity>>
    /\ UNCHANGED <<loadRest, failures, file, ledClock, ledLoad, MODEL_NAME, model,
                   monShared, monFlags, timeline>>

\* load_model() from the model's from_pretrained on: try ... finally
\* clear_load_context(); then the model is placed and the phase is "ready"
StartupLoadEnd ==
    /\ lPc["startup"] = "loading"
    /\ load_context' = None
    /\ \/ /\ model' = Some([model_id |-> MODEL_NAME, precision |-> PRECISION,
                            device |-> DEVICE, placed |-> TRUE])
          /\ startup_status' = [startup_status EXCEPT !.phase = "ready",
                                                      !.detail = ""]
          /\ lPc' = [lPc EXCEPT !["startup"] = "returned"]
       \/ /\ lPc' = [lPc EXCEPT !["startup"] = "raised"]
          /\ UNCHANGED <<model, startup_status>>
    /\ UNCHANGED <<loadRest, failures, file, ledClock, ledLoad, MODEL_NAME, tokenizer,
                   monShared, monFlags, timeline, last_snapshot, vram_velocity,
                   ram_velocity, lModel, loads>>

\* _perform_stepdown, called by a /translate handler that found the pressure
\* event set, up to the tokenizer's from_pretrained: the failure is recorded,
\* the model is unloaded, the load context is set
StepdownLoadBegin ==
    /\ lPc["stepdown"] # "loading"
    /\ lPc["startup"] = "returned"
    /\ ~IsNone(tokenizer) /\ ~IsNone(model)
    /\ pressure_event
    /\ ~IsNone(STEPDOWN_CHAIN[MODEL_NAME])
    /\ loads < MaxLoads
    /\ loads' = loads + 1
    /\ lModel' = [lModel EXCEPT !["stepdown"] = STEPDOWN_CHAIN[MODEL_NAME][1]]
    /\ failures' = RecordFailureList(failures, MODEL_NAME, PRECISION, DEVICE,
                      pressure_reason,
                      IF IsNone(pressure_snapshot) THEN None
                      ELSE Some(to_dict(pressure_snapshot[1])),
                      ledClock)
    /\ ledClock' = ledClock + 1
    /\ ledLoad' = [ledLoad EXCEPT !.records = @ + 1, !.sequential = failures']
    /\ file' = SaveData(hw_fingerprint, failures')
    /\ model' = None
    /\ tokenizer' = None
    /\ SetLoadContext(STEPDOWN_CHAIN[MODEL_NAME][1],
                      EstimatedMb(STEPDOWN_CHAIN[MODEL_NAME][1], PRECISION))
    /\ lPc' = [lPc EXCEPT !["stepdown"] = "loading"]
    /\ UNCHANGED <<loadRest, MODEL_NAME, startup_status, monShared, monFlags,
                   timeline>>

\* _perform_stepdown from the tokenizer's from_pretrained on: try ... finally
\* clear_load_context(); then the flags, clear_pressure(), the "stepdown"
\* event and MODEL_NAME; an exception makes it return None
StepdownLoadEnd ==
    /\ lPc["stepdown"] = "loading"
    /\ load_context' = None
    /\ \/ /\ tokenizer' = Some(lModel["stepdown"])
          /\ model' = Some([model_id |-> lModel["stepdown"], precision |-> PRECISION,
                            device |-> DEVICE, placed |-> TRUE])
          /\ stepdown_active' = TRUE
          /\ stepped_down_from' = Some(MODEL_NAME)
          /\ stepped_down_to' = Some(lModel["stepdown"])
          /\ pressure_event' = FALSE
          /\ pressure_reason' = ""
          /\ pressure_snapshot' = None
          /\ state' = "ok"
          /\ \E r \in world :
               LET vv == velocity_update(vram_velocity,
                                         Snapshot(r, clock).vram_free_mb, clock)
                   rv == velocity_update(ram_velocity,
                                         Snapshot(r, clock).ram_available_mb, clock)
                   snap == snapshot_with_velocity(r, clock, vv, rv)
               IN  /\ last_snapshot' = Some(snap)
                   /\ vram_velocity' = vv
                   /\ ram_velocity' = rv
                   /\ timeline' = add_timeline(timeline, "stepdown", "loaded", snap,
                                     Some([from |-> MODEL_NAME,
                                           to |-> lModel["stepdown"]]))
          /\ MODEL_NAME' = lModel["stepdown"]
          /\ lPc' = [lPc EXCEPT !["stepdown"] = "returned"]
       \/ /\ tokenizer' \in {tokenizer, Some(lModel["stepdown"])}
          /\ lPc' = [lPc EXCEPT !["stepdown"] = "raised"]
          /\ UNCHANGED <<model, MODEL_NAME, monShared, monFlags, timeline,
                         last_snapshot, vram_velocity, ram_velocity>>
    /\ UNCHANGED <<loadRest, failures, file, ledClock, ledLoad, startup_status,
                   lModel, loads>>

\* the combinations a benchmark sweep loads
BenchLoads == {<<M13, "fp16">>}

\* _load_model_for_benchmark up to the try: the load context is set
BenchLoadBegin ==
    /\ lPc["benchmark"] # "loading"
    /\ loads < MaxLoads
    /\ loads' = loads + 1
    /\ \E c \in BenchLoads :
          /\ lModel' = [lModel EXCEPT !["benchmark"] = c[1]]
          /\ SetLoadContext(c[1], EstimatedMb(c[1], c[2]))
    /\ lPc' = [lPc EXCEPT !["benchmark"] = "loading"]
    /\ UNCHANGED <<loadRest, failures, file, ledClock, ledLoad, MODEL_NAME, tokenizer,
                   model, startup_status, monShared, monFlags, timeline>>

\* (mutant) the context is cleared after the load, not in a finally clause
BenchLoadEnd_NoFinally ==
    /\ lPc["benchmark"] = "loading"
    /\ \/ /\ load_context' = None
          /\ lPc' = [lPc EXCEPT !["benchmark"] = "returned"]
       \/ /\ lPc' = [lPc EXCEPT !["benchmark"] = "raised"]
          /\ UNCHANGED load_context
    /\ UNCHANGED <<loadRest, failures, file, ledClock, ledLoad, MODEL_NAME, tokenizer,
                   model, startup_status, monShared, monFlags, timeline,
                   last_snapshot, vram_velocity, ram_velocity, lModel, loads>>

\* _load_model_for_benchmark: try: the tokenizer and the model are loaded
\* and returned, or an exception leaves; finally: clear_load_context()
BenchLoadEnd ==
    /\ lPc["benchmark"] = "loading"
    /\ load_context' = None
    /\ \E outcome \in {"returned", "raised"} :
          lPc' = [lPc EXCEPT !["benchmark"] = outcome]
    /\ UNCHANGED <<loadRest, failures, file, ledClock, ledLoad, MODEL_NAME, tokenizer,
                   model, startup_status, monShared, monFlags, timeline,
                   last_snapshot, vram_velocity, ram_velocity, lModel, loads>>

\* lifespan(): the monitor has been created and started and load_model()
\* handed to a worker thread, on a host whose device is one of devices and
\* whose readings are readings; startup says how far load_model() is, keys
\* what NLLB_API_KEY may hold ("" when no key is configured)
PollStart(devices, readings, startup, keys) ==
    /\ host = DefaultHost
    /\ DEVICE \in devices
    /\ PRECISION = (IF DEVICE = "cuda" THEN "bf16" ELSE "fp32")
    /\ MODEL_NAME = M33
    /\ startPc = "ready"
    /\ strongWarning = None
    /\ LedgerIdle
    /\ BenchIdle
    /\ ServiceIdle
    /\ NLLB_API_KEY \in keys
    /\ hPc = [c \in HealthClients |-> "idle"]
    /\ hReq = [c \in HealthClients |-> None]
    /\ hReady = [c \in HealthClients |-> FALSE]
    /\ hResp = [c \in HealthClients |-> None]
    /\ state = "ok"
    /\ pressure_event = FALSE
    /\ pressure_reason = ""
    /\ pressure_snapshot = None
    /\ stepdown_active = FALSE
    /\ stepped_down_from = None
    /\ stepped_down_to = None
    /\ timeline = <<>>
    /\ last_snapshot = None
    /\ clock = 0
    /\ samples = 0
    /\ world = readings
    /\ sPc = "snapshot"
    /\ sSnap = None
    /\ sVramHard = ""
    /\ sPlan = None
    /\ cPc = [t \in Threads |-> "none"]
    /\ clears = 0
    /\ clearedAt = None
    /\ stop_event = FALSE
    /\ pPc = "check"
    /\ interval = ""
    /\ timer = FALSE
    /\ vram_velocity = NewVelocity
    /\ ram_velocity = NewVelocity
    /\ sFrom = ""
    /\ sCtx = None
    /\ stopAt = ""
    /\ afterStop = 0
    /\ loads = 0
    /\ snapCalls = 0
    /\ sweep = SweepIdle
    /\ \E phase \in startup :
          /\ lPc = [l \in Loaders |-> IF l = "startup" THEN phase ELSE "idle"]
          /\ lModel = [l \in Loaders |->
                          IF l = "startup" /\ phase # "idle" THEN M33 ELSE ""]
          /\ tokenizer = (IF phase = "idle" THEN None ELSE Some(M33))
          /\ model = (IF phase = "returned"
                      THEN Some([model_id |-> M33, precision |-> PRECISION,
                                 device |-> DEVICE, placed |-> TRUE])
                      ELSE None)
          /\ load_context =
                (IF phase = "loading"
                 THEN Some(LoadContext(M33, EstimatedMb(M33, PRECISION),
                                       Snapshot(Reading(1000, 8000, 0), 0)))
                 ELSE None)
          /\ startup_status =
                [phase |-> IF phase = "idle" THEN "initializing"
                           ELSE IF phase = "loading" THEN "downloading_model"
                           ELSE "ready",
                 detail |-> IF phase = "loading" THEN M33 ELSE "",
                 started_at |-> 0]

\* a host with or without a GPU; load_model() is loading the model, or over
PollInit == PollStart({"cuda", "cpu"}, PollReadings, {"loading", "returned"}, {""})

\* the sampler's loop while the server starts and is stopped
PollNext ==
    \/ PollCheck
    \/ PollIterate
    \/ IntervalElapses
    \/ PollWake
    \/ Stop
    \/ StartupLoadEnd

SpecPoll == PollInit /\ [][PollNext]_vars

\* a host with a GPU whose RAM is fine or below the soft limit, while
\* load_model() is loading the model
StopInit ==
    PollStart({"cuda"}, {Reading(1000, 8000, 0), Reading(1000, 3000, 0)}, {"loading"},
              {""})

\* the sampler is a thread of its own: each of its steps is taken when it
\* can be; nothing is assumed about the passing of time or about the load
SpecStop ==
    /\ StopInit
    /\ [][PollNext]_vars
    /\ WF_vars(PollCheck) /\ WF_vars(PollIterate) /\ WF_vars(PollWake)

\* the readings of the host the loads are checked on: the second one is
\* below the RAM hard limit, and no load survives it
LoadReadings == {Reading(1000, 8000, 0), Reading(1000, 500, 0)}

\* a host with a GPU under the readings above; load_model() not yet called
LoadInit == PollStart({"cuda"}, LoadReadings, {"idle"}, {""})

\* the loads of the three kinds, with the sampler running
LoadNext ==
    \/ PollCheck
    \/ PollIterate
    \/ IntervalElapses
    \/ PollWake
    \/ StartupLoadBegin
    \/ StartupLoadEnd
    \/ StepdownLoadBegin
    \/ StepdownLoadEnd
    \/ BenchLoadBegin
    \/ BenchLoadEnd

SpecLoad == LoadInit /\ [][LoadNext]_vars

\* the last iteration of the sampler's loop took the branch of level `from`
Iterated(from) == sFrom = from /\ ~IsNone(sPlan) /\ ~IsNone(sSnap)

\* the arm reason a snapshot gives when only RAM soft, RAM time-to-full and,
\* if load_predict says so, the load prediction are looked at
RamArmReason(snap, load_predict) ==
    Join(
      When(snap.ram_available_mb < ram_soft_mb,
           "ram_available=" \o ToString(snap.ram_available_mb) \o " < soft="
              \o ToString(ram_soft_mb))
      \o When(~IsNone(snap.ram_ttf_s) /\ snap.ram_ttf_s[1] < 300, "ram_ttf < 30s")
      \o When(load_predict, "load_predict") )

\* C21: on a host without a GPU (VRAM total 0) the level is never VRAM_FULL,
\* no VRAM_FULL event is ever on the timeline, and whenever an iteration
\* takes the level from OK to WARN the reason it arms with is made of the
\* RAM soft, RAM time-to-full and load-prediction conditions only
C21_NoGpuNeverArmsOnVram ==
    DEVICE = "cpu" =>
      /\ state # "vram_full"
      /\ \A i \in DOMAIN timeline : timeline[i].event # "VRAM_FULL"
      /\ (Iterated("ok") /\ sPlan[1].target = "warn") =>
            /\ sPlan[1].trigger # ""
            /\ sPlan[1].trigger =
                  RamArmReason(sSnap[1], ~WillRamSurvive(sCtx, sSnap[1]))

\* on a host without a GPU an iteration has armed on the RAM time-to-full
\* alone, with the VRAM free at 0 MB
C21_Witness ==
    /\ DEVICE = "cpu"
    /\ Iterated("ok")
    /\ sPlan[1].target = "warn"
    /\ sPlan[1].trigger = "ram_ttf < 30s"
    /\ sSnap[1].vram_free_mb = 0

\* no swap, process-swap or load-prediction hard condition holds on the
\* snapshot the last iteration took
NoOtherHard ==
    /\ Max(0, sSnap[1].swap_used_mb - swap_baseline_mb) <= swap_hard_mb
    /\ sSnap[1].process_swap_mb = 0
    /\ WillRamSurvive(sCtx, sSnap[1])

\* C22 (as stated): an iteration in WARN or VRAM_FULL whose snapshot has
\* ram_available_mb equal to ram_hard_mb, and no other hard condition, takes
\* the level to CRITICAL
C22_HardFiresAtLimit ==
    ( /\ Iterated("warn") \/ Iterated("vram_full")
      /\ sSnap[1].ram_available_mb = ram_hard_mb
      /\ NoOtherHard )
    => sPlan[1].target = "critical"

\* C22 (amended): with ram_available_mb equal to ram_hard_mb and no other
\* hard condition, an iteration in WARN or VRAM_FULL does not take the level
\* to CRITICAL; with ram_available_mb below ram_hard_mb it does
C22_HardFiresBelowLimit ==
    (Iterated("warn") \/ Iterated("vram_full")) =>
      /\ (sSnap[1].ram_available_mb = ram_hard_mb /\ NoOtherHard)
            => sPlan[1].target # "critical"
      /\ sSnap[1].ram_available_mb < ram_hard_mb
            => sPlan[1].target = "critical"

\* an iteration in WARN has looked at a snapshot with RAM exactly at the hard
\* limit and has left the level at WARN
C22_Witness ==
    /\ Iterated("warn")
    /\ sSnap[1].ram_available_mb = ram_hard_mb
    /\ NoOtherHard
    /\ sPlan[1].target = ""
    /\ state = "warn"

\* C28: while the sampler waits, the interval it chose is the normal one
\* exactly when the level is OK
C28_IntervalFollowsLevel ==
    pPc = "wait" => (interval = "normal" <=> state = "ok")

\* C29: an iteration sets the level to OK only on a snapshot with no arm
\* condition, no VRAM hard condition and no RAM/swap hard condition; and an
\* iteration in WARN or VRAM_FULL whose snapshot breaches a RAM/swap hard
\* limit sets the level to CRITICAL
C29_HardBeforeRecovery ==
    /\ (~IsNone(sPlan) /\ sPlan[1].target = "ok") =>
          /\ check_arm_conditions(sSnap[1], sCtx) = ""
          /\ check_vram_hard(sSnap[1]) = ""
          /\ check_hard_conditions(sSnap[1], sCtx) = ""
    /\ ( /\ Iterated("warn") \/ Iterated("vram_full")
         /\ check_hard_conditions(sSnap[1], sCtx) # "" )
       => (sPlan[1].target = "critical" /\ state = "critical")

\* an iteration in VRAM_FULL met a snapshot on which VRAM had recovered and
\* RAM was below the hard limit, and set CRITICAL
C29_Witness ==
    /\ Iterated("vram_full")
    /\ check_vram_hard(sSnap[1]) = ""
    /\ sSnap[1].ram_available_mb < ram_hard_mb
    /\ state = "critical"

\* C24: the monitor holds a load context only while one of the loads
\* (startup, stepdown, benchmark) is between its set_load_context and the
\* end of its from_pretrained calls
C24_ContextOnlyWhileLoading ==
    ~IsNone(load_context) => \E l \in Loaders : lPc[l] = "loading"

\* a load has raised, another has returned, none is running, and the
\* sampler's last iteration found no load context
C24_Witness ==
    /\ \E l \in Loaders : lPc[l] = "raised"
    /\ \E l \in Loaders : lPc[l] = "returned"
    /\ \A l \in Loaders : lPc[l] # "loading"
    /\ IsNone(load_context)
    /\ samples > 0
    /\ IsNone(sCtx)

\* C27: once stop() has set the event the sampler takes no snapshot, except
\* the one of the iteration it had already entered; it leaves the loop only
\* when the event is set; and from the moment the event is set it reaches
\* the end of the loop without time having to pass
C27_StopEndsTheLoop ==
    /\ [](afterStop <= (IF stopAt = "iterate" THEN 1 ELSE 0))
    /\ [](pPc = "exited" => stop_event)
    /\ (stop_event ~> pPc = "exited")

\* the sampler has left the loop after a stop() that found it waiting, and
\* the interval of that wait never ran out
C27_Witness ==
    /\ pPc = "exited"
    /\ stopAt = "wait"
    /\ ~timer
    /\ afterStop = 0

(***************************************************************************)
(*                     The timeline as a ring of 32 events                 *)
(***************************************************************************)

\* bound: iterations of the sampler's loop while the timeline fills
MaxRingPolls == 48

\* the readings of a host whose RAM sits at the soft limit, one MB above or
\* below it (too slow a drain for the time-to-full to matter), and at times
\* falls below the hard limit
RingReadings == {Reading(1000, 4000, 0), Reading(1000, 3999, 0), Reading(1000, 500, 0)}

\* the host moves against the monitor: below the soft limit while the level
\* is OK, back at it or below the hard limit once it is WARN
Swings(r) ==
    IF state = "ok" THEN r.MemAvailable = 3999 ELSE r.MemAvailable # 3999

\* one iteration of the sampler's loop and the whole wait that follows it;
\* at level CRITICAL the stepdown controller is given the time to finish
RingPoll ==
    /\ pPc = "check"
    /\ ~stop_event
    /\ samples < MaxRingPolls
    /\ state # "critical"
    /\ \E r \in world : Swings(r) /\ PollOn(r)
    /\ clock' = clock + Ticks(interval')
    /\ UNCHANGED <<pPc, timer>>

\* a started server with a GPU whose startup load is over
RingInit == PollStart({"cuda"}, RingReadings, {"returned"}, {""})

RingNext ==
    \/ RingPoll
    \/ StepdownLoadBegin
    \/ StepdownLoadEnd

SpecRing == RingInit /\ [][RingNext]_vars

\* C30: the timeline never holds more than 32 events; a step that changes
\* it appends one event, and when it held 32 the oldest one, and only that
\* one, is gone and the others keep their order
C30_RingOf32 ==
    [][ /\ Len(timeline') <= 32
        /\ timeline' # timeline =>
             /\ Len(timeline') > 0
             /\ IF Len(timeline) = 32
                THEN /\ Len(timeline') = 32
                     /\ \A i \in 1..31 : timeline'[i] = timeline[i + 1]
                ELSE /\ Len(timeline') = Len(timeline) + 1
                     /\ \A i \in DOMAIN timeline : timeline'[i] = timeline[i] ]_vars

\* the timeline is full, has already lost its first event (the first ARMED,
\* at time 0), and holds events of the sampler and of a stepdown
C30_Witness ==
    /\ Len(timeline) = 32
    /\ timeline[1].t_epoch > 0
    /\ \E i \in DOMAIN timeline : timeline[i].event = "stepdown"
    /\ \E i \in DOMAIN timeline : timeline[i].event = "DISARMED"

\* C23: in every warning a /translate response carries, the timeline is
\* relative to the CRITICAL transition: a CRITICAL event of that timeline
\* has t_ms = 0
C23_CriticalAtZero ==
    \A t \in Threads :
      (~IsNone(tResp[t]) /\ ~IsNone(tResp[t][1].warning)) =>
        LET tl == tResp[t][1].warning[1].timeline
        IN  \E i \in DOMAIN tl : tl[i].event = "CRITICAL" /\ tl[i].t_ms = 0

\* C26: with no overrides, on a host without GPU and with 32 GB of RAM and an
\* empty ledger, _resolve_precision yields int8 and _resolve_model yields the
\* distilled-600M model.
C26_CpuPicksInt8_600M ==
    (/\ startPc \in {"load", "ready"}
     /\ DEVICE = "cpu"
     /\ IsNone(Forced(host))
     /\ host.env_NLLB_PRECISION = ""
     /\ host.ram_mb = 32000
     /\ failures = <<>>) =>
        /\ PRECISION = "int8"
        /\ MODEL_NAME = M06

\* ------------------------------------------------------------------------
\* GET /health and _try_hmac_auth
\* ------------------------------------------------------------------------

MaxHealthPolls == 2

CLOCK_SKEW_WINDOW == 30

SERVER_VERSION == "0.5.1"
SERVER_VERSION_AT == "unknown"
SERVER_VERSION_SOURCE == "unknown"

\* time.time() in whole seconds; the clock ticks in quarters of a second
NowS == clock \div 4

Abs(n) == IF n < 0 THEN 0 - n ELSE n

\* hmac.new(key, timestamp_str, sha256).hexdigest(), taken as collision-free:
\* the pair it is computed from
Hmac(key, timestamp_str) == <<key, timestamp_str>>

\* a decimal string of a timestamp, and a string int() rejects
Digits(n) == [digits |-> TRUE, value |-> n]
NotANumber == [digits |-> FALSE, value |-> 0]

\* the requests a client may send at time now: the Authorization header is
\* absent (None) or has a scheme and, for "Bearer ...", the parts that
\* header[len("Bearer "):].split(":") yields; kind names what the client did
HealthRequests(now) ==
    { [kind |-> "none", authorization |-> None],
      [kind |-> "basic",
       authorization |-> Some([bearer_hmac |-> FALSE, parts |-> <<>>])],
      [kind |-> "short",
       authorization |-> Some([bearer_hmac |-> TRUE,
                               parts |-> <<"HMAC-SHA256", Digits(now)>>])],
      [kind |-> "not_a_number",
       authorization |-> Some([bearer_hmac |-> TRUE,
                               parts |-> <<"HMAC-SHA256", NotANumber,
                                           Hmac("k1", NotANumber)>>])],
      [kind |-> "expired",
       authorization |-> Some([bearer_hmac |-> TRUE,
                               parts |-> <<"HMAC-SHA256",
                                           Digits(now - CLOCK_SKEW_WINDOW - 1),
                                           Hmac("k1", Digits(now - CLOCK_SKEW_WINDOW - 1))>>])],
      [kind |-> "wrong_key",
       authorization |-> Some([bearer_hmac |-> TRUE,
                               parts |-> <<"HMAC-SHA256", Digits(now),
                                           Hmac("k2", Digits(now))>>])],
      [kind |-> "valid",
       authorization |-> Some([bearer_hmac |-> TRUE,
                               parts |-> <<"HMAC-SHA256", Digits(now),
                                           Hmac("k1", Digits(now))>>])] }

\* _try_hmac_auth(request) at time now
try_hmac_auth(request, api_key, now) ==
    IF api_key = "" THEN TRUE
    ELSE IF IsNone(request.authorization) THEN FALSE
    ELSE LET h == request.authorization[1]
         IN  IF ~h.bearer_hmac THEN FALSE
             ELSE IF Len(h.parts) # 3 THEN FALSE
             ELSE IF ~h.parts[2].digits THEN FALSE
             ELSE IF Abs(now - h.parts[2].value) > CLOCK_SKEW_WINDOW THEN FALSE
             ELSE Hmac(api_key, h.parts[2]) = h.parts[3]

TwoDigits(n) == IF n < 10 THEN "0" \o ToString(n) ELSE ToString(n)

\* datetime.fromtimestamp(t, tz=utc).strftime("%Y-%m-%dT%H:%M:%SZ"), for the
\* first hour of the epoch
started_iso(t) ==
    "1970-01-01T00:" \o TwoDigits((t \div 60) % 60) \o ":" \o TwoDigits(t % 60) \o "Z"

\* round(100 * a / b, 1), in tenths of a percent
PctTenths(a, b) == RoundDiv(1000 * a, b)

\* get_load_progress(snap): None when no load is in progress
get_load_progress(ctx, snap) ==
    IF IsNone(ctx) THEN None
    ELSE LET c == ctx[1]
             vram_delta == Max(0, snap.vram_allocated_mb - c.vram_baseline_mb)
             ram_used_now == snap.ram_total_mb - snap.ram_available_mb
             ram_delta == Max(0, ram_used_now - c.ram_baseline_mb)
             consumed == vram_delta + ram_delta
             remaining == Max(0, c.estimated_total_mb - consumed)
             remaining_to_ram == Max(0, remaining - snap.vram_free_mb)
             ram_after_load == snap.ram_available_mb - remaining_to_ram
         IN  Some([model_id |-> c.model_id,
                   estimated_total_mb |-> c.estimated_total_mb,
                   consumed_mb |-> consumed,
                   progress_pct |-> IF c.estimated_total_mb > 0
                                    THEN IF consumed >= c.estimated_total_mb THEN 1000
                                         ELSE PctTenths(consumed, c.estimated_total_mb)
                                    ELSE 0,
                   remaining_mb |-> remaining,
                   ram_available_mb |-> snap.ram_available_mb,
                   ram_after_load_mb |-> ram_after_load,
                   will_ram_survive |-> ram_after_load > ram_hard_mb])

\* everything health() reads besides startup_status["phase"] and
\* startup_status["started_at"]
Internals ==
    [model |-> MODEL_NAME,
     device |-> DEVICE,
     precision |-> PRECISION,
     host |-> host,
     detail |-> startup_status.detail,
     now |-> clock,
     last_snapshot |-> last_snapshot,
     state |-> state,
     stepdown_active |-> stepdown_active,
     load_context |-> load_context,
     failures |-> failures]

\* the "resources" object of the authenticated response
HealthResources(x) ==
    IF IsNone(x.last_snapshot) THEN None
    ELSE LET snap == x.last_snapshot[1]
         IN  Some([vram_allocated_mb |-> snap.vram_allocated_mb,
                   vram_total_mb |-> snap.vram_total_mb,
                   vram_pct |-> IF snap.vram_total_mb > 0
                                THEN PctTenths(snap.vram_allocated_mb, snap.vram_total_mb)
                                ELSE 0,
                   ram_available_mb |-> snap.ram_available_mb,
                   ram_total_mb |-> snap.ram_total_mb,
                   swap_used_mb |-> snap.swap_used_mb,
                   pressure |-> x.state,
                   stepdown_active |-> x.stepdown_active,
                   load_progress |-> get_load_progress(x.load_context, snap)])

\* the public part of the response
PublicResponse(ready, phase, started_at) ==
    [status |-> IF ready THEN "ok" ELSE "loading",
     version |-> SERVER_VERSION,
     version_at |-> SERVER_VERSION_AT,
     version_source |-> SERVER_VERSION_SOURCE,
     started_at |-> started_iso(started_at),
     phase |-> phase]

\* what resp.update({...}) adds for an authenticated caller
DetailResponse(ready, started_at, x) ==
    [model |-> x.model,
     device |-> x.device,
     precision |-> x.precision,
     cpu_features |-> [avx512bf16 |-> x.host.avx512bf16],
     gpu |-> IF x.device = "cuda"
             THEN Some([bf16 |-> x.host.bf16_ok, vram_mb |-> x.host.vram_mb])
             ELSE None,
     detail |-> x.detail,
     elapsed_s |-> IF ready THEN None ELSE Some(x.now - 4 * started_at),
     resources |-> HealthResources(x),
     cached_pressure_failures |-> Len(x.failures)]

\* (mutant) the model id is put into the response before the tier is decided
health_response_NamesModel(ready, phase, started_at, authenticated, x) ==
    IF ~authenticated
    THEN PublicResponse(ready, phase, started_at) @@ [model |-> x.model]
    ELSE PublicResponse(ready, phase, started_at) @@ DetailResponse(ready, started_at, x)

\* health(): the dict it returns, from what it has read
health_response(ready, phase, started_at, authenticated, x) ==
    IF ~authenticated
    THEN PublicResponse(ready, phase, started_at)
    ELSE PublicResponse(ready, phase, started_at) @@ DetailResponse(ready, started_at, x)

healthRest == <<ledVars, selVars, benchCore, keyVars, svcVars, monVars, pollVars,
                NLLB_API_KEY, startup_status>>

\* health() up to _try_hmac_auth(request): ready is read, the header is looked at
HStart(c) ==
    /\ hPc[c] = "idle"
    /\ \E request \in HealthRequests(NowS) :
          hReq' = [hReq EXCEPT ![c] = Some([request |-> request, now |-> NowS])]
    /\ hReady' = [hReady EXCEPT ![c] = (startup_status.phase = "ready")]
    /\ hPc' = [hPc EXCEPT ![c] = "respond"]
    /\ UNCHANGED <<healthRest, hResp>>

\* health() from the public response on: the phase is read again, and for
\* an authenticated caller the detail
HRespond(c) ==
    /\ hPc[c] = "respond"
    /\ LET authenticated == try_hmac_auth(hReq[c][1].request, NLLB_API_KEY,
                                          hReq[c][1].now)
       IN  hResp' = [hResp EXCEPT ![c] =
              Some([kind |-> hReq[c][1].request.kind,
                    level |-> state,
                    ready |-> hReady[c],
                    phase |-> startup_status.phase,
                    body |-> health_response(hReady[c], startup_status.phase,
                                             startup_status.started_at,
                                             authenticated, Internals)])]
    /\ hPc' = [hPc EXCEPT ![c] = "done"]
    /\ UNCHANGED <<healthRest, hReq, hReady>>

\* one iteration of the sampler's loop and the whole wait that follows it
HealthPoll ==
    /\ pPc = "check"
    /\ ~stop_event
    /\ samples < MaxHealthPolls
    /\ \E r \in world : PollOn(r)
    /\ clock' = clock + Ticks(interval')
    /\ UNCHANGED <<pPc, timer>>

HealthReadings == {Reading(1000, 8000, 0), Reading(1000, 500, 0)}

\* a server that has just started, with or without a GPU, with or without a
\* configured key
HealthInit == PollStart({"cuda", "cpu"}, HealthReadings, {"idle"}, {"", "k1"})

HealthNext ==
    \/ StartupLoadBegin
    \/ StartupLoadEnd
    \/ HealthPoll
    \/ StepdownLoadBegin
    \/ StepdownLoadEnd
    \/ \E c \in HealthClients : HStart(c)
    \/ \E c \in HealthClients : HRespond(c)

SpecHealth == HealthInit /\ [][HealthNext]_vars

\* server states that differ from one another in the model, the device, the
\* compute type, the GPU, the snapshot, the level, the stepdown flag, the
\* load in progress and the ledger
OtherInternals ==
    { [model |-> m,
       device |-> d,
       precision |-> IF d = "cuda" THEN "bf16" ELSE "fp32",
       host |-> [DefaultHost EXCEPT !.bf16_ok = (d = "cuda"),
                                    !.vram_mb = IF d = "cuda" THEN 24576 ELSE 0],
       detail |-> IF IsNone(ctx) THEN "" ELSE m,
       now |-> 8,
       last_snapshot |-> snap,
       state |-> lvl,
       stepdown_active |-> sd,
       load_context |-> ctx,
       failures |-> fs] :
      m \in {M33, M13},
      d \in {"cuda", "cpu"},
      snap \in {None, Some(Snapshot(Reading(1000, 500, 0), 4))},
      lvl \in {"ok", "critical"},
      sd \in BOOLEAN,
      ctx \in {None, Some(LoadContext(M13, 3000, Snapshot(Reading(1000, 8000, 0), 0)))},
      fs \in {<<>>, LedgerOf({<<M33, "fp16", "cuda">>})} }

\* the response was given to a caller without a valid token while a key is
\* configured
Unauthenticated(c) ==
    /\ NLLB_API_KEY # ""
    /\ ~IsNone(hResp[c])
    /\ hResp[c][1].kind # "valid"

\* C25: the response to a /health request without a valid token, on a server
\* with a configured key, is the one the server would have given in any
\* other state of its model, device, compute type, GPU, snapshot, pressure
\* level, stepdown flag, load progress and ledger: it is determined by ready,
\* the phase and started_at, and its fields are the six public ones.
C25_PublicFieldsOnly ==
    \A c \in HealthClients :
        Unauthenticated(c) =>
            /\ DOMAIN hResp[c][1].body =
                   {"status", "version", "version_at", "version_source",
                    "started_at", "phase"}
            /\ \A x \in OtherInternals :
                   hResp[c][1].body =
                       health_response(hResp[c][1].ready, hResp[c][1].phase,
                                       startup_status.started_at, FALSE, x)

\* a caller with a signature made with another key has been answered while
\* the level was CRITICAL and the ledger held a record, on a server that was
\* still loading when the handler began
C25_Witness ==
    /\ Unauthenticated("p1")
    /\ hResp["p1"][1].kind = "wrong_key"
    /\ hResp["p1"][1].level = "critical"
    /\ hResp["p1"][1].body.status = "loading"
    /\ hResp["p1"][1].body.phase = "ready"

\* C39: whenever the sampler is between two iterations and no caller is
\* inside clear_pressure(), pressure_event is set if and only if the level is
\* CRITICAL.
C39_EventIffCritical ==
    (sPc = "snapshot" /\ \A t \in Threads : cPc[t] = "none") =>
        (pressure_event <=> state = "critical")

\* ------------------------------------------------------------------------
\* One /translate handler and its stepdown beside the sampler's statements
\* ------------------------------------------------------------------------

\* the handler thread of this specification
LineThread == "h1"

\* the statements of the sampler's iteration interleaved with one handler
\* thread, on the host of SvcInit
LineNext ==
    \/ SSnapshot
    \/ SDispatchOK
    \/ SDispatchWARN
    \/ SDispatchVRAM_FULL
    \/ SWriteState
    \/ SSetEvent
    \/ SWriteReason
    \/ SWriteSnapshot
    \/ ClearPressureEvent(LineThread)
    \/ ClearPressureReason(LineThread)
    \/ ClearPressureSnapshot(LineThread)
    \/ ClearPressureState(LineThread)
    \/ TStart(LineThread)
    \/ TCheckLoaded(LineThread)
    \/ TCheckDegraded(LineThread)
    \/ TReadName(LineThread)
    \/ TInfer(LineThread)
    \/ TCheckPressure(LineThread)
    \/ SdBegin(LineThread)
    \/ SdRecord(LineThread)
    \/ SdUnload(LineThread)
    \/ SdSetLoadContext(LineThread)
    \/ SdLoadTokenizer(LineThread)
    \/ SdLoadModel(LineThread)
    \/ SdPlace(LineThread)
    \/ SdFlags(LineThread)
    \/ SdTimeline(LineThread)
    \/ SdSetName(LineThread)
    \/ TRespond(LineThread)

SpecLine == SvcInit /\ [][LineNext]_vars

\* C31: the events of the timeline have non-decreasing epochs in buffer
\* order, in every reachable state.
C31_TimelineChronological ==
    \A i \in 1..(Len(timeline) - 1) : timeline[i].t_epoch <= timeline[i + 1].t_epoch

\* ram_after_load as the prediction is stated: what is left of the estimate
\* after the memory consumed since the baseline, less the free VRAM, is taken
\* from the RAM available
StatedRamAfterLoad(c, snap) ==
    LET vram_used == snap.vram_allocated_mb
        ram_used == snap.ram_total_mb - snap.ram_available_mb
        consumed == Max(0, vram_used - c.vram_baseline_mb)
                      + Max(0, ram_used - c.ram_baseline_mb)
        remaining == Max(0, c.estimated_total_mb - consumed)
        remaining_to_ram == Max(0, remaining - snap.vram_free_mb)
    IN  snap.ram_available_mb - remaining_to_ram

\* the load is predicted to kill RAM
StatedKill(c, snap) == StatedRamAfterLoad(c, snap) <= ram_hard_mb

\* a RAM, swap or process-swap hard limit is breached on the snapshot
RamSwapBreach(snap) ==
    \/ snap.ram_available_mb < ram_hard_mb
    \/ Max(0, snap.swap_used_mb - swap_baseline_mb) > swap_hard_mb
    \/ snap.process_swap_mb > 0

\* C32: in an iteration that saw a live LoadContext, get_load_progress gives
\* the stated ram_after_load and predicts a kill exactly when it is at most
\* ram_hard; from OK a predicted kill arms the monitor; from WARN or
\* VRAM_FULL, with no RAM/swap limit breached, the level becomes CRITICAL
\* exactly when a kill is predicted and RAM available is below the soft limit.
C32_LoadPrediction ==
    (~IsNone(sPlan) /\ ~IsNone(sSnap) /\ ~IsNone(sCtx)) =>
        LET snap == sSnap[1]
            c == sCtx[1]
            p == get_load_progress(sCtx, snap)[1]
        IN  /\ p.ram_after_load_mb = StatedRamAfterLoad(c, snap)
            /\ p.will_ram_survive <=> ~StatedKill(c, snap)
            /\ WillRamSurvive(sCtx, snap) <=> ~StatedKill(c, snap)
            /\ (sFrom = "ok" /\ StatedKill(c, snap)) => sPlan[1].target = "warn"
            /\ (sFrom \in {"warn", "vram_full"} /\ ~RamSwapBreach(snap)) =>
                  (sPlan[1].target = "critical" <=>
                      (StatedKill(c, snap) /\ snap.ram_available_mb < ram_soft_mb))

\* while a load is running the sampler, armed by the prediction alone, has
\* looked at a snapshot that predicts a kill with RAM above the soft limit, and
\* has not gone to CRITICAL
C32_Witness ==
    /\ ~IsNone(sPlan) /\ ~IsNone(sSnap) /\ ~IsNone(sCtx)
    /\ sFrom = "warn"
    /\ StatedKill(sCtx[1], sSnap[1])
    /\ sSnap[1].ram_available_mb >= ram_soft_mb
    /\ ~RamSwapBreach(sSnap[1])
    /\ sPlan[1].target # "critical"
    /\ state = "warn"

\* ------------------------------------------------------------------------
\* snapshot() called by a benchmark sweep beside the sampler's loop
\* ------------------------------------------------------------------------

MaxSnapshotCalls == 2

\* what snapshot() never assigns, its own _last_snapshot apart
snapshotFrame == <<ledVars, selVars, benchCore, keyVars, healthVars, svcVars,
                   monShared, monFlags, monLocal, load_context, timeline,
                   clock, samples, world, cPc, clears, clearedAt, stop_event, pPc,
                   interval, timer, sFrom, sCtx, stopAt, afterStop, lPc, lModel,
                   loads, sweep>>

\* (mutant) the snapshot is also kept as the pressure snapshot
SweepSnapshot_KeepsPressureSnapshot ==
    /\ snapCalls < MaxSnapshotCalls
    /\ snapCalls' = snapCalls + 1
    /\ \E r \in world :
          LET vv == velocity_update(vram_velocity, Snapshot(r, clock).vram_free_mb, clock)
              rv == velocity_update(ram_velocity, Snapshot(r, clock).ram_available_mb,
                                    clock)
              snap == snapshot_with_velocity(r, clock, vv, rv)
          IN  /\ vram_velocity' = vv
              /\ ram_velocity' = rv
              /\ last_snapshot' = Some(snap)
              /\ pressure_snapshot' = Some(snap)
    /\ UNCHANGED <<ledVars, selVars, benchCore, keyVars, healthVars, svcVars,
                   state, pressure_event, pressure_reason, monFlags, monLocal,
                   load_context, timeline, clock, samples, world, cPc, clears,
                   clearedAt, stop_event, pPc, interval, timer, sFrom, sCtx, stopAt,
                   afterStop, lPc, lModel, loads, sweep>>

\* pre_snap = resource_monitor.snapshot() in a benchmark sweep: the whole of
\* snapshot(), called from the sweep's thread
SweepSnapshot ==
    /\ snapCalls < MaxSnapshotCalls
    /\ snapCalls' = snapCalls + 1
    /\ \E r \in world :
          LET vv == velocity_update(vram_velocity, Snapshot(r, clock).vram_free_mb, clock)
              rv == velocity_update(ram_velocity, Snapshot(r, clock).ram_available_mb,
                                    clock)
              snap == snapshot_with_velocity(r, clock, vv, rv)
          IN  /\ vram_velocity' = vv
              /\ ram_velocity' = rv
              /\ last_snapshot' = Some(snap)
    /\ UNCHANGED snapshotFrame

SnapReadings == {Reading(1000, 8000, 0), Reading(1000, 3000, 0), Reading(1000, 500, 0)}

\* a started server, with or without a GPU, whose startup load is over
SnapInit == PollStart({"cuda", "cpu"}, SnapReadings, {"returned"}, {""})

SnapNext ==
    \/ PollCheck
    \/ PollIterate
    \/ IntervalElapses
    \/ PollWake
    \/ SweepSnapshot

SpecSnap == SnapInit /\ [][SnapNext]_vars

\* C33 (as stated): a call of snapshot() changes nothing but the velocity
\* trackers
C33_OnlyVelocityChanges ==
    [][ snapCalls' # snapCalls => UNCHANGED <<snapshotFrame, last_snapshot>> ]_vars

\* C33 (amended): a call of snapshot() changes nothing but the velocity
\* trackers and last_snapshot: the level, pressure_event, pressure_reason,
\* pressure_snapshot, the timeline, the load context and the stepdown flags
\* are as they were
C33_VelocityAndLastSnapshot ==
    [][ snapCalls' # snapCalls => UNCHANGED snapshotFrame ]_vars

\* a sweep has called snapshot() while the level was WARN, with RAM below
\* the hard limit
C33_Witness ==
    /\ snapCalls > 0
    /\ state = "warn"
    /\ ~IsNone(last_snapshot)
    /\ last_snapshot[1].ram_available_mb < ram_hard_mb
    /\ (IsNone(sSnap) \/ sSnap # last_snapshot)

\* C34: at the step where a stepdown from a model with a successor records
\* the failure, the translator is still loaded and no successor load has
\* started, and the ledger then holds (current model, PRECISION, DEVICE) with
\* the reason the handler captured for the event, which is not empty.
C34_RecordedBeforeUnload ==
    [][ (tPc[LineThread] = "sd_record" /\ tPc'[LineThread] = "sd_unload") =>
          /\ ~IsNone(model) /\ ~IsNone(tokenizer)
          /\ IsNone(load_context)
          /\ tReason[LineThread] # ""
          /\ \E i \in DOMAIN failures' :
                /\ ComboOf(failures'[i]) = <<tCur[LineThread], PRECISION, DEVICE>>
                /\ failures'[i].reason = tReason[LineThread]
      ]_vars

\* C35: a stepdown invoked for a model with no successor changes nothing: the
\* translator stays loaded, the active model id, the ledger, the pressure
\* event, the level and the stepdown flags are as they were.
C35_NoSuccessorChangesNothing ==
    [][ \A t \in Threads :
          (tPc[t] = "sd_begin" /\ tPc'[t] # "sd_begin" /\ IsNone(STEPDOWN_CHAIN[tCur[t]])) =>
             UNCHANGED <<model, tokenizer, MODEL_NAME, failures, pressure_event,
                         pressure_reason, pressure_snapshot, state, stepdown_active,
                         stepped_down_from, stepped_down_to>>
      ]_vars

\* the controller has returned without a successor while the event is set and
\* the translator is loaded
C35_Witness ==
    /\ tPc[LineThread] = "respond"
    /\ IsNone(STEPDOWN_CHAIN[tCur[LineThread]])
    /\ IsNone(tNext[LineThread])
    /\ pressure_event
    /\ ~IsNone(model) /\ ~IsNone(tokenizer)
    /\ MODEL_NAME = tCur[LineThread]
    /\ failures = <<>>

\* translate()'s two refusals: no translator, or a stepdown was made and the
\* event is set again
Refusing ==
    \/ IsNone(tokenizer) \/ IsNone(model)
    \/ (stepdown_active /\ pressure_event)

\* C36: when the successor's load fails in a stepdown, the old translator is
\* gone, the active model id is not the successor, the pressure event is still
\* set and the server refuses /translate requests.
C36_FailedLoadRefuses ==
    [][ \A t \in Threads :
          (tPc[t] \in {"sd_tokenizer", "sd_model", "sd_place"} /\ tPc'[t] = "respond") =>
             /\ Refusing'
             /\ MODEL_NAME' = tCur[t]
             /\ pressure_event'
             /\ (IsNone(model') \/ model'[1].model_id # tCur[t])
      ]_vars

\* what _resolve_model compares the estimates with: VRAM less 2000 MB on CUDA,
\* system RAM less 4000 MB elsewhere
Usable(device, h) ==
    IF device = "cuda" THEN h.vram_mb - 2000 ELSE h.ram_mb - 4000

\* the specs the scan at the resolved compute type goes through
ScannedSpecs(device) ==
    IF device = "cuda" THEN NLLB_SPECS ELSE SelectSeq(NLLB_SPECS, CpuPractical)

\* some scan of the auto-selection finds a candidate: at the resolved compute
\* type or, on CUDA, at a lower one of the fallback chain
SomeScanHits(precision, device, h, fs) ==
    \/ ~IsNone(FirstFit(ScannedSpecs(device), precision, Usable(device, h), device, fs))
    \/ device = "cuda" /\ ~IsNone(FallbackScan(precision, Usable(device, h), fs))

\* C38: with no override, whenever a scan of the auto-selection finds a
\* candidate, the estimate of the selected model at the compute type it is
\* loaded with is at most the available memory less the headroom.
C38_LoadedCombinationFits ==
    (startPc = "ready" /\ IsNone(Forced(host)) /\ DEVICE \in {"cuda", "cpu"}
       /\ SomeScanHits(PRECISION, DEVICE, host, failures)) =>
        LET spec == NLLB_SPECS[CHOOSE i \in DOMAIN NLLB_SPECS :
                                  NLLB_SPECS[i].model_id = model[1].model_id]
        IN  MemMb(spec.params_m, model[1].precision) <= Usable(DEVICE, host)

(***************************************************************************)
(*            /benchmark with its handler threads scheduled                *)
(***************************************************************************)

\* every step of benchmark() after the request has arrived
BHandlerStep(h) ==
    \/ BCheckCache(h)
    \/ BAcquire(h)
    \/ BReadFuture(h)
    \/ BWait(h)
    \/ BPublish(h)
    \/ BRun(h)
    \/ BStoreCache(h)
    \/ BSetResult(h)
    \/ BSetEvent(h)
    \/ BExcept(h)
    \/ BExit(h)
    \/ BRelease(h)

\* the handlers run in worker threads that are not starved: a handler that
\* can take its next step takes it; requests and cache clears arrive or not
SpecBenchFair ==
    /\ BenchInit
    /\ [][BenchNext]_vars
    /\ \A h \in BenchClients : WF_vars(BHandlerStep(h))

\* C40: every request that joined an in-flight run eventually returns, and
\* the benchmark lock, once taken, is eventually released, on every exit path
\* of the runner.
C40_JoinersReturn ==
    /\ \A h \in BenchClients : (bPc[h] = "wait") ~> (bPc[h] = "done")
    /\ (~IsNone(benchLock)) ~> IsNone(benchLock)

(***************************************************************************)
(*        _run_benchmark's matrix loop beside the sampler's statements     *)
(***************************************************************************)

\* bound: len(req.sentences)
SweepSentences == 2

\* the (model, precision, device) combinations the sweep goes through, in order
SweepCombos == << <<M13, "fp16", "cuda">>, <<M06, "fp16", "cuda">> >>

\* the worker thread that runs the sweep
SweepThread == "h2"

\* a BenchmarkComboResult: its combination, status, the number of
\* sentence_results it carries and its pressure_snapshot
ComboResult(combo, status, sentences, psnap) ==
    [combo |-> combo, status |-> status, sentences |-> sentences,
     pressure_snapshot |-> psnap]

sweepLedger == <<failures, file, ledClock, ledLoad>>
sweepGlobals == <<tokenizer, model>>
sweepMon == <<cPc, clears, last_snapshot, load_context>>
sweepRest == <<hw_fingerprint, cacheLock, rfPc, rfArg, host, DEVICE, PRECISION,
               MODEL_NAME, startPc, strongWarning, benchCore, keyVars, healthVars,
               svcVars, monShared, monFlags, monLocal, timeline, clock, samples,
               world, clearedAt, stop_event, pPc, interval, timer, vram_velocity,
               ram_velocity, sFrom, sCtx, stopAt, afterStop, lPc, lModel, loads,
               snapCalls>>

\* resource_monitor.snapshot() called by the sweep, at the time the clock shows
SweepTakesSnapshot ==
    \E r \in world : last_snapshot' = Some(Snapshot(r, clock))

\* resource_monitor.clear_pressure() is entered by the sweep
SweepEntersClear ==
    /\ cPc' = [cPc EXCEPT ![SweepThread] = "event"]
    /\ clears' = clears + 1

\* benchmark() holds the lock and calls _run_benchmark
WStart ==
    /\ sweep.pc = "idle"
    /\ sweep' = [sweep EXCEPT !.pc = "next"]
    /\ UNCHANGED <<sweepLedger, sweepGlobals, sweepMon, sweepRest>>

\* the head of the matrix loop: the next combination, skipped when the ledger
\* holds it; after the last one, the clear_pressure() before the reload
WNextCombo ==
    /\ sweep.pc = "next"
    /\ cPc[SweepThread] = "none"
    /\ IF sweep.combo = Len(SweepCombos)
       THEN /\ sweep' = [sweep EXCEPT !.pc = "reload"]
            /\ SweepEntersClear
       ELSE LET c == SweepCombos[sweep.combo + 1]
                cached == is_known_failure(failures, c[1], c[2], c[3])
            IN  /\ sweep' =
                     IF ~IsNone(cached)
                     THEN [sweep EXCEPT !.combo = @ + 1,
                             !.results = Append(@, ComboResult(c,
                                "X (cached pressure failure (" \o cached[1].reason \o "))",
                                0, None))]
                     ELSE [sweep EXCEPT !.combo = @ + 1, !.pc = "unload", !.done = 0,
                             !.stage = "", !.seen = FALSE, !.reason = "",
                             !.snap = None]
                /\ UNCHANGED <<cPc, clears>>
    /\ UNCHANGED <<sweepLedger, sweepGlobals, last_snapshot, load_context,
                   sweepRest>>

\* _unload_model(); resource_monitor.clear_pressure() is entered
WUnload ==
    /\ sweep.pc = "unload"
    /\ tokenizer' = None
    /\ model' = None
    /\ SweepEntersClear
    /\ sweep' = [sweep EXCEPT !.pc = "presnap"]
    /\ UNCHANGED <<sweepLedger, last_snapshot, load_context, sweepRest>>

\* pre_snap = resource_monitor.snapshot()
WPreSnapshot ==
    /\ sweep.pc = "presnap"
    /\ cPc[SweepThread] = "none"
    /\ SweepTakesSnapshot
    /\ sweep' = [sweep EXCEPT !.pc = "context"]
    /\ UNCHANGED <<sweepLedger, sweepGlobals, cPc, clears, load_context, sweepRest>>

\* _load_model_for_benchmark: resource_monitor.set_load_context(...)
WLoadBegin ==
    /\ sweep.pc = "context"
    /\ LET c == SweepCombos[sweep.combo]
           params == NLLB_SPECS[CHOOSE i \in DOMAIN NLLB_SPECS :
                                   NLLB_SPECS[i].model_id = c[1]].params_m
       IN  \E r \in world :
              /\ last_snapshot' = Some(Snapshot(r, clock))
              /\ load_context' = Some(LoadContext(c[1], MemMb(params, c[2]),
                                                  Snapshot(r, clock)))
    /\ sweep' = [sweep EXCEPT !.pc = "load"]
    /\ UNCHANGED <<sweepLedger, sweepGlobals, cPc, clears, sweepRest>>

\* the two from_pretrained calls and the move to the device, then
\* clear_load_context() in the finally block; an Exception is caught by the
\* combination's except clause, which appends a runtime-error result
WLoadEnd ==
    /\ sweep.pc = "load"
    /\ load_context' = None
    /\ \/ sweep' = [sweep EXCEPT !.pc = "postsnap",
                                 !.loaded = Some(SweepCombos[sweep.combo])]
       \/ sweep' = [sweep EXCEPT !.pc = "next", !.loaded = None,
                      !.results = Append(@, ComboResult(SweepCombos[sweep.combo],
                                            "X (runtime error)", 0, None))]
    /\ UNCHANGED <<sweepLedger, sweepGlobals, cPc, clears, last_snapshot,
                   sweepRest>>

\* post_snap = resource_monitor.snapshot();
\* if resource_monitor.pressure_event.is_set(): the combination is given up
WPostLoad ==
    /\ sweep.pc = "postsnap"
    /\ SweepTakesSnapshot
    /\ sweep' = IF pressure_event
                THEN [sweep EXCEPT !.pc = "reason", !.stage = "load", !.seen = TRUE]
                ELSE [sweep EXCEPT !.pc = "warmup"]
    /\ UNCHANGED <<sweepLedger, sweepGlobals, cPc, clears, load_context, sweepRest>>

\* the warmup translation and combo_snap = resource_monitor.snapshot()
WWarmup ==
    /\ sweep.pc = "warmup"
    /\ SweepTakesSnapshot
    /\ sweep' = [sweep EXCEPT !.pc = "check"]
    /\ UNCHANGED <<sweepLedger, sweepGlobals, cPc, clears, load_context, sweepRest>>

\* for sent in req.sentences: if resource_monitor.pressure_event.is_set()
WCheck ==
    /\ sweep.pc = "check"
    /\ sweep' = IF sweep.done = SweepSentences THEN [sweep EXCEPT !.pc = "finish"]
                ELSE IF pressure_event
                THEN [sweep EXCEPT !.pc = "reason", !.stage = "sentence",
                                   !.seen = TRUE]
                ELSE [sweep EXCEPT !.pc = "translate"]
    /\ UNCHANGED <<sweepLedger, sweepGlobals, sweepMon, sweepRest>>

\* resp = _translate_with_metrics(sent, ...); sentence_results.append(...); an
\* Exception ends the combination with a runtime-error result
WTranslate ==
    /\ sweep.pc = "translate"
    /\ \/ sweep' = [sweep EXCEPT !.pc = "check", !.done = @ + 1]
       \/ sweep' = [sweep EXCEPT !.pc = "next", !.loaded = None,
                      !.results = Append(@, ComboResult(SweepCombos[sweep.combo],
                                            "X (runtime error)", 0, None))]
    /\ UNCHANGED <<sweepLedger, sweepGlobals, sweepMon, sweepRest>>

\* reason = resource_monitor.pressure_reason
WReadReason ==
    /\ sweep.pc = "reason"
    /\ sweep' = [sweep EXCEPT !.pc = "snap", !.reason = pressure_reason]
    /\ UNCHANGED <<sweepLedger, sweepGlobals, sweepMon, sweepRest>>

\* p_snap = resource_monitor.pressure_snapshot (and the timeline is copied)
WReadSnapshot ==
    /\ sweep.pc = "snap"
    /\ sweep' = [sweep EXCEPT !.pc = "record", !.snap = pressure_snapshot]
    /\ UNCHANGED <<sweepLedger, sweepGlobals, sweepMon, sweepRest>>

\* _unload_model(); pressure_cache.record_failure(model_id, prec, dev, reason,
\* snapshot=p_snap.to_dict() if p_snap else None)
WRecord ==
    /\ sweep.pc = "record"
    /\ tokenizer' = None
    /\ model' = None
    /\ LET c == SweepCombos[sweep.combo]
       IN  failures' = RecordFailureList(failures, c[1], c[2], c[3], sweep.reason,
                          IF IsNone(sweep.snap) THEN None
                          ELSE Some(to_dict(sweep.snap[1])),
                          ledClock)
    /\ ledClock' = ledClock + 1
    /\ ledLoad' = [ledLoad EXCEPT !.records = @ + 1, !.sequential = failures']
    /\ file' = SaveData(hw_fingerprint, failures')
    /\ sweep' = [sweep EXCEPT !.pc = "append"]
    /\ UNCHANGED <<sweepMon, sweepRest>>

\* combos.append(BenchmarkComboResult(status="X (memory pressure: ...)", ...,
\* sentence_results=sentence_results, ...)); clear_pressure() is entered
WAppend ==
    /\ sweep.pc = "append"
    /\ sweep' = [sweep EXCEPT !.pc = "drop",
                   !.results = Append(@, ComboResult(SweepCombos[sweep.combo],
                        "X (memory pressure: " \o sweep.reason \o ")",
                        IF sweep.stage = "sentence" THEN sweep.done ELSE 0,
                        IF IsNone(sweep.snap) THEN None
                        ELSE Some(to_dict(sweep.snap[1]))))]
    /\ SweepEntersClear
    /\ UNCHANGED <<sweepLedger, sweepGlobals, last_snapshot, load_context,
                   sweepRest>>

\* clear_pressure() has returned; the sentence loop's abort goes through
\* `del tok, mdl`, the post-load abort continues with tok and mdl still bound
WDrop ==
    /\ sweep.pc = "drop"
    /\ cPc[SweepThread] = "none"
    /\ sweep' = [sweep EXCEPT !.pc = "next",
                   !.loaded = IF sweep.stage = "sentence" THEN None ELSE @]
    /\ UNCHANGED <<sweepLedger, sweepGlobals, sweepMon, sweepRest>>

\* all sentences done: the "ok" result is appended; del tok, mdl
WFinish ==
    /\ sweep.pc = "finish"
    /\ sweep' = [sweep EXCEPT !.pc = "next", !.loaded = None,
                   !.results = Append(@, ComboResult(SweepCombos[sweep.combo], "ok",
                                                     sweep.done, None))]
    /\ UNCHANGED <<sweepLedger, sweepGlobals, sweepMon, sweepRest>>

\* after the matrix: clear_pressure() has returned; _unload_model();
\* load_model(); clear_pressure() is entered again
WReload ==
    /\ sweep.pc = "reload"
    /\ cPc[SweepThread] = "none"
    /\ tokenizer' = Some(MODEL_NAME)
    /\ model' = Some([model_id |-> MODEL_NAME, precision |-> PRECISION,
                      device |-> DEVICE, placed |-> TRUE])
    /\ SweepEntersClear
    /\ sweep' = [sweep EXCEPT !.pc = "return"]
    /\ UNCHANGED <<sweepLedger, last_snapshot, load_context, sweepRest>>

\* resources_snap = resource_monitor.snapshot(); return BenchmarkResponse(...)
WReturn ==
    /\ sweep.pc = "return"
    /\ cPc[SweepThread] = "none"
    /\ SweepTakesSnapshot
    /\ sweep' = [sweep EXCEPT !.pc = "returned"]
    /\ UNCHANGED <<sweepLedger, sweepGlobals, cPc, clears, load_context, sweepRest>>

\* a started server on the 3.3B model, on a host whose RAM is below the hard
\* limit
SweepInit == SvcInit /\ MODEL_NAME = M33

SweepNext ==
    \/ SSnapshot
    \/ SDispatchOK
    \/ SDispatchWARN
    \/ SDispatchVRAM_FULL
    \/ SWriteState
    \/ SSetEvent
    \/ SWriteReason
    \/ SWriteSnapshot
    \/ ClearPressureEvent(SweepThread)
    \/ ClearPressureReason(SweepThread)
    \/ ClearPressureSnapshot(SweepThread)
    \/ ClearPressureState(SweepThread)
    \/ WStart
    \/ WNextCombo
    \/ WUnload
    \/ WPreSnapshot
    \/ WLoadBegin
    \/ WLoadEnd
    \/ WPostLoad
    \/ WWarmup
    \/ WCheck
    \/ WTranslate
    \/ WReadReason
    \/ WReadSnapshot
    \/ WRecord
    \/ WAppend
    \/ WDrop
    \/ WFinish
    \/ WReload
    \/ WReturn

SpecSweep == SweepInit /\ [][SweepNext]_vars

\* the last result appended by the sweep
LastResult(sw) == sw.results[Len(sw.results)]

\* a sentence is translated only while the event has not been observed set
\* for the combination
SweepNoSentenceAfterEvent ==
    sweep'.done > sweep.done => ~sweep.seen

\* the abort's result is a failure that carries the sentences completed so
\* far, and the ledger holds the combination
SweepAbortRecorded ==
    (sweep.pc = "append" /\ sweep'.pc = "drop" /\ sweep.stage = "sentence") =>
        /\ LastResult(sweep').combo = SweepCombos[sweep.combo]
        /\ LastResult(sweep').status # "ok"
        /\ LastResult(sweep').sentences = sweep.done
        /\ IsNone(model)
        /\ \E i \in DOMAIN failures :
              /\ ComboOf(failures[i]) = SweepCombos[sweep.combo]
              /\ failures[i].reason = sweep.reason

\* the results of the combinations given up for memory pressure
PressureAborts(sw) ==
    {i \in DOMAIN sw.results :
        \E k \in DOMAIN failures :
           /\ ComboOf(failures[k]) = sw.results[i].combo
           /\ sw.results[i].status = "X (memory pressure: " \o failures[k].reason \o ")"}

\* a load begins only after a clear_pressure() entered after the last abort
\* has returned
SweepClearedBeforeLoad ==
    (sweep.pc = "context" /\ sweep'.pc = "load") =>
        /\ cPc[SweepThread] = "none"
        /\ clears >= sweep.combo + Cardinality(PressureAborts(sweep))

\* the order of the sweep's steps around an observed event, without the
\* content of the reason
SweepOrder ==
    [][ SweepNoSentenceAfterEvent /\ SweepAbortRecorded /\ SweepClearedBeforeLoad ]_vars

\* C37: no sentence of a combination is translated after the pressure event
\* has been observed set for it; on an observed event the combination is
\* aborted, the model unloaded, the combination recorded in the ledger with
\* the pressure reason, its result is a failure carrying the sentences
\* completed so far, and pressure is cleared before the next load.
C37_AbortOnObservedEvent ==
    [][ /\ SweepNoSentenceAfterEvent
        /\ SweepAbortRecorded
        /\ SweepClearedBeforeLoad
        /\ (sweep.pc = "append" /\ sweep'.pc = "drop" /\ sweep.stage = "sentence") =>
              sweep.reason # ""
      ]_vars
====
